---- MODULE Spec2Model ----
(***************************************************************************)
(* Inventa: the API service (src/src/services/api.ts) over its two         *)
(* storage backends, browser localStorage and the Supabase project.        *)
(*                                                                         *)
(* Every exported async function is a call in a slot of Calls.  A call     *)
(* advances one step per resolved await: a step performs the awaited       *)
(* operation (a Supabase request is one atomic server operation, a Web     *)
(* Crypto call a pure function) and then runs the synchronous code that    *)
(* follows it, up to the next await.  JavaScript runs these continuations  *)
(* one at a time, in any order across the calls in flight.                 *)
(*                                                                         *)
(* Strings that the code trims or lower-cases are sequences of one-letter  *)
(* strings; messages and key material are opaque.  Time is counted in      *)
(* weeks, the session lifetime of 7 * 24 * 60 * 60 * 1000 ms being one.    *)
(* Fields that no operation reads back for a decision and that only repeat *)
(* the clock or a random identifier (the created_at of a user, the id and  *)
(* login_time of a login event, the createdAt of a User object) are left   *)
(* out of the rows.  The Supabase tables are tables with a primary key id  *)
(* and no other constraint: the repository defines no schema for them.     *)
(***************************************************************************)
EXTENDS Integers, Sequences, FiniteSets, TLC

\* ------------------------------------------------------------------ bounds
MaxCalls == 2          \* API calls in flight at once in SpecConc
MaxRecords == 3        \* calls that add a record (a user, a document, a
                       \* login event) are issued while the stores hold fewer
MaxConcRecords == 2    \* the same, for the calls of SpecConc
MaxNow == 2            \* the clock stops advancing here
MaxKeyPairs == 2       \* key pairs that the crypto calls of SpecCrypto use

\* ------------------------------------------------------- program constants
SessionTTL == 1        \* 7 * 24 * 60 * 60 * 1000 ms, in weeks
NullId == 0            \* a null user_id

Calls == 1 .. MaxCalls
Null == [null |-> TRUE]

\* ---------------------------------------------------------------- inputs
\* what the callers type: emails that differ in case and padding, user names
\* that differ in padding, a second password
RegisterInputs ==
  { [email |-> <<"a">>, username |-> <<"u">>, password |-> "p"],
    [email |-> <<" ", "A">>, username |-> <<"v">>, password |-> "p"],
    [email |-> <<"b">>, username |-> <<"u", " ">>, password |-> "q"] }

LoginInputs ==
  { [email |-> <<" ", "A">>, password |-> "p"],
    [email |-> <<"a">>, password |-> "q"],
    [email |-> <<"b">>, password |-> "q"] }

\* files f and g hold the same bytes
FileF == [name |-> "f", content |-> "X", size |-> 1]
FileG == [name |-> "g", content |-> "X", size |-> 1]
FileH == [name |-> "h", content |-> "Y", size |-> 2]

\* ------------------------------------------------------- string functions
\* String.prototype.toLowerCase, letter by letter
lowerChar(ch) ==
  IF ch = "A" THEN "a" ELSE IF ch = "B" THEN "b" ELSE ch

toLowerCase(s) == [i \in 1 .. Len(s) |-> lowerChar(s[i])]

RECURSIVE trimStart(_)
trimStart(s) ==
  IF s # <<>> /\ Head(s) = " " THEN trimStart(Tail(s)) ELSE s

RECURSIVE trimEnd(_)
trimEnd(s) ==
  IF s # <<>> /\ s[Len(s)] = " " THEN trimEnd(SubSeq(s, 1, Len(s) - 1)) ELSE s

\* String.prototype.trim
trim_none(s) == s

trim(s) == trimEnd(trimStart(s))

\* ------------------------------------------------------- crypto functions
\* crypto.subtle.digest('SHA-256', bytes) rendered by bufferToHex: one hex
\* string per content, different contents giving different strings
bufferToHex(content) ==
  IF content = "X" THEN <<"e", "3">> ELSE <<"e", "7">>

generateSHA256Hash(file) == bufferToHex(file.content)

hashString(str) == <<"sha256", str>>

\* the base64 PKCS#8 / SPKI exports of the k-th generated key pair
generateECCKeyPair(k) == [publicKey |-> <<"pub", k>>, privateKey |-> <<"priv", k>>]

validPrivateKey_length(key) == Len(key) = 2

\* crypto.subtle.importKey('pkcs8', ...) accepts exactly the exported keys
validPrivateKey(key) == Len(key) = 2 /\ key[1] = "priv"

signData(data, privateKey) == <<"sig", privateKey[2], data>>

\* ----------------------------------------------------------------- state
VARIABLES
  useSupabase, connectionTested,            \* api.ts module state
  inventa_users, inventa_documents,         \* localStorage keys
  inventa_login_history, inventa_session,
  authUsers, authSession,                   \* Supabase Auth
  tblUsers, tblDocuments, tblLoginHistory,  \* Supabase tables
  now,                                      \* Date.now(), in weeks
  verifyPage,                               \* the state of the Verify page
  authContext,                              \* the state of the AuthProvider
  pc, loc, ret                              \* the calls in flight

modvars == <<useSupabase, connectionTested>>
lsvars == <<inventa_users, inventa_documents, inventa_login_history, inventa_session>>
sbvars == <<authUsers, authSession, tblUsers, tblDocuments, tblLoginHistory>>
uivars == <<verifyPage, authContext>>

\* the useState values of the Verify page as it mounts; hashing holds the
\* files whose generateSHA256Hash, called by handleFileSelect, is pending,
\* and awaiting says that handleVerify waits for verifyDocument
verifyPageInit ==
  [method |-> "file", file |-> Null, hash |-> <<>>, isVerifying |-> FALSE,
   result |-> Null, computedHash |-> <<>>, hashing |-> {}, awaiting |-> FALSE]

\* the useState values of the AuthProvider before its first effect runs;
\* refreshing counts the refreshAuth calls that wait for getCurrentUser
authContextInit == [user |-> Null, isLoading |-> TRUE]
vars == <<modvars, lsvars, sbvars, now, uivars, pc, loc, ret>>

Init ==
  /\ useSupabase = TRUE
  /\ connectionTested = FALSE
  /\ inventa_users = <<>>
  /\ inventa_documents = <<>>
  /\ inventa_login_history = <<>>
  /\ inventa_session = Null
  /\ authUsers = <<>>
  /\ authSession = NullId
  /\ tblUsers = <<>>
  /\ tblDocuments = <<>>
  /\ tblLoginHistory = <<>>
  /\ now = 0
  /\ verifyPage = verifyPageInit
  /\ authContext = authContextInit
  /\ pc = [c \in Calls |-> "idle"]
  /\ loc = [c \in Calls |-> Null]
  /\ ret = [c \in Calls |-> Null]

\* a call slot is free when nothing is in flight in it
Free(c) == pc[c] \in {"idle", "done"}

Goto(c, label, locals) ==
  /\ pc' = [pc EXCEPT ![c] = label]
  /\ loc' = [loc EXCEPT ![c] = locals]
  /\ ret' = [ret EXCEPT ![c] = Null]

\* a finished call keeps its name and arguments beside its result
Finish(c, op, args, value) ==
  /\ pc' = [pc EXCEPT ![c] = "done"]
  /\ loc' = [loc EXCEPT ![c] = [op |-> op, args |-> args]]
  /\ ret' = [ret EXCEPT ![c] = value]

Return(c, value) == Finish(c, loc[c].op, loc[c].args, value)

\* identifiers and key pairs are fresh: the least number not in use
userIds ==
  { inventa_users[i].id : i \in 1 .. Len(inventa_users) }
    \cup { authUsers[i].id : i \in 1 .. Len(authUsers) }

\* the records held by the stores
records ==
  Cardinality(userIds) + Len(inventa_documents) + Len(tblDocuments)
    + Len(inventa_login_history) + Len(tblLoginHistory)

newUserId == CHOOSE n \in 1 .. (Cardinality(userIds) + 1) : n \notin userIds

\* ------------------------------------------------------ ensureConnection
\* The call of ensureConnection: with connectionTested set it returns at
\* once, otherwise a testConnection request goes out.
ensureConnectionCall == IF connectionTested THEN "ready" ELSE "testing"

\* the same call made in the step in which an earlier await of
\* ensureConnection has just resolved
ensureConnectionAgain == IF connectionTested' THEN "ready" ELSE "testing"

\* The await of ensureConnection resolves; a request that was sent stores
\* its answer, whatever the flag says by then.
ensureConnectionResolved(ensure) ==
  IF ensure = "testing"
    THEN \E answer \in BOOLEAN :
           /\ useSupabase' = answer
           /\ connectionTested' = TRUE
    ELSE UNCHANGED modvars

ensureConnection(c) == ensureConnectionResolved(loc[c].ensure)

\* --------------------------------------------------------------- the clock
\* a week passes; no call stays in flight that long
Tick ==
  /\ now < MaxNow
  /\ \A c \in Calls : pc[c] \in {"idle", "done"}
  /\ now' = now + 1
  /\ UNCHANGED <<modvars, lsvars, sbvars, uivars, pc, loc, ret>>

\* The Supabase Auth session of the client ends by itself (its token lapses
\* or is revoked); getCurrentUser then finds no Auth user.
authSessionEnds ==
  /\ authSession # NullId
  /\ authSession' = NullId
  /\ UNCHANGED <<modvars, lsvars, authUsers, tblUsers, tblDocuments, tblLoginHistory,
                 now, uivars, pc, loc, ret>>

\* --------------------------------------------------------------- register
keyIds ==
  { inventa_users[i].public_key[2] : i \in 1 .. Len(inventa_users) }
    \cup { authUsers[i].user_metadata.public_key[2] : i \in 1 .. Len(authUsers) }
    \cup { loc[c].keyPair.publicKey[2] :
             c \in { d \in Calls : pc[d] \notin {"idle", "done"}
                                    /\ "keyPair" \in DOMAIN loc[d] } }

newKeyId == CHOOSE n \in 1 .. (Cardinality(keyIds) + 1) : n \notin keyIds

\* the session record that register and login write to localStorage
newSession(userId, token) ==
  [userId |-> userId, token |-> token, expiresAt |-> now + SessionTTL]

\* the User object of a stored row
userOf(row) ==
  [id |-> row.id, email |-> row.email, username |-> row.username,
   publicKey |-> row.public_key, privateKey |-> row.private_key_encrypted]

registerStart(c, data, budget) ==
  /\ Free(c)
  /\ records < budget
  /\ Goto(c, "register_ensure",
          [op |-> "register", args |-> data, ensure |-> ensureConnectionCall])
  /\ UNCHANGED <<modvars, lsvars, sbvars, now, uivars>>

\* await ensureConnection() resolves; generateECCKeyPair() is called
registerEnsured(c) ==
  /\ pc[c] = "register_ensure"
  /\ ensureConnection(c)
  /\ pc' = [pc EXCEPT ![c] = "register_keys"]
  /\ UNCHANGED <<lsvars, sbvars, now, uivars, loc, ret>>

\* the key pair arrives; email and username are normalised and the branch
\* on useSupabase is taken
registerKeys(c) ==
  /\ pc[c] = "register_keys"
  /\ LET locals == [op |-> "register", args |-> loc[c].args,
                    keyPair |-> generateECCKeyPair(newKeyId),
                    email |-> trim(toLowerCase(loc[c].args.email)),
                    username |-> trim(loc[c].args.username)]
     IN  Goto(c, IF useSupabase THEN "register_signUp" ELSE "register_hash", locals)
  /\ UNCHANGED <<modvars, lsvars, sbvars, now, uivars>>

\* supabase.auth.signUp answers: an error for an email that Auth already
\* holds, otherwise a new Auth user, signed in
registerSignUp(c) ==
  /\ pc[c] = "register_signUp"
  /\ IF \E i \in 1 .. Len(authUsers) : authUsers[i].email = loc[c].email
       THEN /\ Return(c, [success |-> FALSE, user |-> Null,
                          message |-> "Email already registered"])
            /\ UNCHANGED <<authUsers, authSession>>
       ELSE LET id == newUserId IN
            /\ authUsers' = Append(authUsers,
                 [id |-> id, email |-> loc[c].email,
                  password |-> loc[c].args.password,
                  user_metadata |->
                    [username |-> loc[c].username,
                     public_key |-> loc[c].keyPair.publicKey,
                     private_key_encrypted |-> loc[c].keyPair.privateKey]])
            /\ authSession' = id
            /\ Goto(c, "register_sbhash", loc[c] @@ [authId |-> id])
  /\ UNCHANGED <<modvars, lsvars, tblUsers, tblDocuments, tblLoginHistory, now, uivars>>

\* hashString(password) arrives; newUser is complete and the upsert goes out
registerSbHash(c) ==
  /\ pc[c] = "register_sbhash"
  /\ Goto(c, "register_upsert",
          loc[c] @@ [newUser |->
            [id |-> loc[c].authId, email |-> loc[c].email,
             username |-> loc[c].username,
             password_hash |-> hashString(loc[c].args.password),
             public_key |-> loc[c].keyPair.publicKey,
             private_key_encrypted |-> loc[c].keyPair.privateKey]])
  /\ UNCHANGED <<modvars, lsvars, sbvars, now, uivars>>

\* supabase.from(USERS).upsert(row): by primary key id
upsert(table, row) ==
  IF \E i \in 1 .. Len(table) : table[i].id = row.id
    THEN [i \in 1 .. Len(table) |-> IF table[i].id = row.id THEN row ELSE table[i]]
    ELSE Append(table, row)

\* the upsert returns; the session is stored and register succeeds
registerUpsert(c) ==
  /\ pc[c] = "register_upsert"
  /\ tblUsers' = upsert(tblUsers, loc[c].newUser)
  /\ inventa_session' = newSession(loc[c].newUser.id, <<"access_token", loc[c].newUser.id>>)
  /\ Return(c, [success |-> TRUE, user |-> userOf(loc[c].newUser),
                message |-> "Registration successful! Please check your email to confirm."])
  /\ UNCHANGED <<modvars, inventa_users, inventa_documents, inventa_login_history,
                 authUsers, authSession, tblDocuments, tblLoginHistory, now, uivars>>

\* localStorage branch: hashString(password) arrives, then the duplicate
\* checks, the push and the session, without a further await
registerLocal(c) ==
  /\ pc[c] = "register_hash"
  /\ LET newUser == [id |-> newUserId, email |-> loc[c].email,
                     username |-> loc[c].username,
                     password_hash |-> hashString(loc[c].args.password),
                     public_key |-> loc[c].keyPair.publicKey,
                     private_key_encrypted |-> loc[c].keyPair.privateKey]
         users == inventa_users
     IN  IF \E i \in 1 .. Len(users) : users[i].email = newUser.email
           THEN /\ Return(c, [success |-> FALSE, user |-> Null,
                              message |-> "Email already registered"])
                /\ UNCHANGED <<inventa_users, inventa_session>>
           ELSE IF \E i \in 1 .. Len(users) : users[i].username = newUser.username
             THEN /\ Return(c, [success |-> FALSE, user |-> Null,
                                message |-> "Username already taken"])
                  /\ UNCHANGED <<inventa_users, inventa_session>>
             ELSE /\ inventa_users' = Append(users, newUser)
                  /\ inventa_session' = newSession(newUser.id, <<"token", now>>)
                  /\ Return(c, [success |-> TRUE, user |-> userOf(newUser),
                                message |-> "Registration successful"])
  /\ UNCHANGED <<modvars, inventa_documents, inventa_login_history, sbvars, now, uivars>>

register(c, budget) ==
  \/ \E data \in RegisterInputs :
       registerStart(c, data, budget)
  \/ registerEnsured(c)
  \/ registerKeys(c)
  \/ registerSignUp(c)
  \/ registerSbHash(c)
  \/ registerUpsert(c)
  \/ registerLocal(c)

\* ------------------------------------------------------------------ login
\* the first row of a table (or stored array) that has the given id
hasId(table, id) == \E i \in 1 .. Len(table) : table[i].id = id

byId_first(table, id) == table[1]

byId(table, id) ==
  table[CHOOSE i \in 1 .. Len(table) :
          table[i].id = id /\ \A j \in 1 .. (i - 1) : table[j].id # id]

hasEmail(table, email) == \E i \in 1 .. Len(table) : table[i].email = email

byEmail(table, email) ==
  table[CHOOSE i \in 1 .. Len(table) :
          table[i].email = email /\ \A j \in 1 .. (i - 1) : table[j].email # email]

\* a || b on strings: the empty string is falsy
orElse(a, b) == IF a # <<>> THEN a ELSE b

loginRecord(userId, email, username, status, failReason) ==
  [user_id |-> userId, user_email |-> email, user_name |-> username,
   status |-> status, fail_reason |-> failReason]

\* recordLoginHistory, called in call c whose result will be `result`: the
\* localStorage branch pushes at once, the Supabase branch awaits an insert
recordLoginHistory_skip(c, record, result) ==
  /\ Return(c, result)
  /\ UNCHANGED inventa_login_history

recordLoginHistory(c, record, result) ==
  IF useSupabase
    THEN /\ Goto(c, "login_history", loc[c] @@ [record |-> record, result |-> result])
         /\ UNCHANGED inventa_login_history
    ELSE /\ inventa_login_history' = Append(inventa_login_history, record)
         /\ Return(c, result)

\* what login returns after a failure that it recorded with failReason
loginFailure_leak(failReason) ==
  [success |-> FALSE, user |-> Null, message |-> failReason]

loginFailure(failReason) ==
  [success |-> FALSE, user |-> Null, message |-> "Invalid email or password"]

\* foundUser.password_hash !== passwordHash
passwordMismatch_never(foundUser, passwordHash) == FALSE

passwordMismatch(foundUser, passwordHash) == foundUser.password_hash # passwordHash

loginStart(c, data, budget) ==
  /\ Free(c)
  /\ records < budget
  /\ Goto(c, "login_ensure",
          [op |-> "login", args |-> data, ensure |-> ensureConnectionCall])
  /\ UNCHANGED <<modvars, lsvars, sbvars, now, uivars>>

\* await ensureConnection() resolves; the email is normalised and either
\* signInWithPassword or hashString is awaited
loginEnsured(c) ==
  /\ pc[c] = "login_ensure"
  /\ ensureConnection(c)
  /\ Goto(c, IF useSupabase' THEN "login_signIn" ELSE "login_hash",
          [op |-> "login", args |-> loc[c].args,
           email |-> trim(toLowerCase(loc[c].args.email))])
  /\ UNCHANGED <<lsvars, sbvars, now, uivars>>

\* supabase.auth.signInWithPassword answers
loginSignIn(c) ==
  /\ pc[c] = "login_signIn"
  /\ IF /\ hasEmail(authUsers, loc[c].email)
        /\ byEmail(authUsers, loc[c].email).password = loc[c].args.password
       THEN /\ authSession' = byEmail(authUsers, loc[c].email).id
            /\ Goto(c, "login_select",
                    loc[c] @@ [authUser |-> byEmail(authUsers, loc[c].email)])
            /\ UNCHANGED <<inventa_login_history>>
       ELSE /\ recordLoginHistory(c,
                 loginRecord(NullId, loc[c].email, <<>>, "failed", "Invalid login credentials"),
                 loginFailure("Invalid login credentials"))
            /\ UNCHANGED authSession
  /\ UNCHANGED <<modvars, inventa_users, inventa_documents, inventa_session,
                 authUsers, tblUsers, tblDocuments, tblLoginHistory, now, uivars>>

\* the users row arrives; the session is stored and the success recorded
loginSelect(c) ==
  /\ pc[c] = "login_select"
  /\ LET au == loc[c].authUser
         found == hasId(tblUsers, au.id)
         userData == byId(tblUsers, au.id)
         username == orElse(IF found THEN userData.username ELSE <<>>,
                            orElse(au.user_metadata.username, loc[c].email))
         publicKey == orElse(IF found THEN userData.public_key ELSE <<>>,
                             au.user_metadata.public_key)
         privateKey == orElse(IF found THEN userData.private_key_encrypted ELSE <<>>,
                              au.user_metadata.private_key_encrypted)
     IN  /\ inventa_session' = newSession(au.id, <<"access_token", au.id>>)
         /\ recordLoginHistory(c,
              loginRecord(au.id, loc[c].email, username, "success", "null"),
              [success |-> TRUE,
               user |-> [id |-> au.id, email |-> loc[c].email, username |-> username,
                         publicKey |-> publicKey, privateKey |-> privateKey],
               message |-> "Login successful"])
  /\ UNCHANGED <<modvars, inventa_users, inventa_documents, sbvars, now, uivars>>

loginLocal_signedOut(c) ==
  /\ pc[c] = "login_hash"
  /\ LET passwordHash == hashString(loc[c].args.password)
         users == inventa_users
         foundUser == byEmail(users, loc[c].email)
     IN  IF ~ hasEmail(users, loc[c].email)
           THEN /\ recordLoginHistory(c,
                     loginRecord(NullId, loc[c].email, <<>>, "failed", "User not found"),
                     loginFailure("User not found"))
                /\ UNCHANGED inventa_session
           ELSE IF passwordMismatch(foundUser, passwordHash)
             THEN /\ recordLoginHistory(c,
                       loginRecord(foundUser.id, loc[c].email, foundUser.username,
                                   "failed", "Invalid password"),
                       loginFailure("Invalid password"))
                  /\ inventa_session' = Null
             ELSE /\ inventa_session' = newSession(foundUser.id, <<"token", now>>)
                  /\ recordLoginHistory(c,
                       loginRecord(foundUser.id, foundUser.email, foundUser.username,
                                   "success", "null"),
                       [success |-> TRUE, user |-> userOf(foundUser),
                        message |-> "Login successful"])
  /\ UNCHANGED <<modvars, inventa_users, inventa_documents, sbvars, now, uivars>>

\* localStorage branch: hashString(password) arrives
loginLocal(c) ==
  /\ pc[c] = "login_hash"
  /\ LET passwordHash == hashString(loc[c].args.password)
         users == inventa_users
         foundUser == byEmail(users, loc[c].email)
     IN  IF ~ hasEmail(users, loc[c].email)
           THEN /\ recordLoginHistory(c,
                     loginRecord(NullId, loc[c].email, <<>>, "failed", "User not found"),
                     loginFailure("User not found"))
                /\ UNCHANGED inventa_session
           ELSE IF passwordMismatch(foundUser, passwordHash)
             THEN /\ recordLoginHistory(c,
                       loginRecord(foundUser.id, loc[c].email, foundUser.username,
                                   "failed", "Invalid password"),
                       loginFailure("Invalid password"))
                  /\ UNCHANGED inventa_session
             ELSE /\ inventa_session' = newSession(foundUser.id, <<"token", now>>)
                  /\ recordLoginHistory(c,
                       loginRecord(foundUser.id, foundUser.email, foundUser.username,
                                   "success", "null"),
                       [success |-> TRUE, user |-> userOf(foundUser),
                        message |-> "Login successful"])
  /\ UNCHANGED <<modvars, inventa_users, inventa_documents, sbvars, now, uivars>>

loginHistory_upsert(c) ==
  /\ pc[c] = "login_history"
  /\ tblLoginHistory' =
       Append(SelectSeq(tblLoginHistory,
                        LAMBDA r : r.user_email # loc[c].record.user_email),
              loc[c].record)
  /\ Return(c, loc[c].result)
  /\ UNCHANGED <<modvars, lsvars, authUsers, authSession, tblUsers, tblDocuments, now, uivars>>

\* the insert into login_history returns
loginHistory(c) ==
  /\ pc[c] = "login_history"
  /\ tblLoginHistory' = Append(tblLoginHistory, loc[c].record)
  /\ Return(c, loc[c].result)
  /\ UNCHANGED <<modvars, lsvars, authUsers, authSession, tblUsers, tblDocuments, now, uivars>>

login(c, budget) ==
  \/ \E data \in LoginInputs : loginStart(c, data, budget)
  \/ loginEnsured(c)
  \/ loginSignIn(c)
  \/ loginSelect(c)
  \/ loginLocal(c)
  \/ loginHistory(c)

\* ----------------------------------------------------------------- logout
\* the session is removed at once; signOut is awaited when useSupabase is set
logoutStart_keep(c) ==
  /\ Free(c)
  /\ UNCHANGED inventa_session
  /\ IF useSupabase
       THEN Goto(c, "logout_signOut", [op |-> "logout", args |-> Null])
       ELSE Finish(c, "logout", Null, Null)
  /\ UNCHANGED <<modvars, inventa_users, inventa_documents, inventa_login_history,
                 sbvars, now, uivars>>

logoutCall(c) ==
  /\ Free(c)
  /\ inventa_session' = Null
  /\ IF useSupabase
       THEN Goto(c, "logout_signOut", [op |-> "logout", args |-> Null])
       ELSE Finish(c, "logout", Null, Null)
  /\ UNCHANGED <<modvars, inventa_users, inventa_documents, inventa_login_history,
                 sbvars, now>>

logoutStart(c) ==
  /\ logoutCall(c)
  /\ UNCHANGED uivars

logoutSignOut(c) ==
  /\ pc[c] = "logout_signOut"
  /\ authSession' = NullId
  /\ Return(c, Null)
  /\ UNCHANGED <<modvars, lsvars, authUsers, tblUsers, tblDocuments, tblLoginHistory, now, uivars>>

logout(c) ==
  \/ logoutStart(c)
  \/ logoutSignOut(c)

\* --------------------------------------------------------- uploadDocument
uploadData(file, proofOfWork) ==
  [file |-> file, ownerName |-> "Alice", description |-> "draft",
   documentType |-> "article", workType |-> "human_made",
   proofOfWork |-> proofOfWork]

UploadInputs ==
  { uploadData(FileF, Null), uploadData(FileG, FileH), uploadData(FileH, Null) }

uploadResult(success, document, message) ==
  [success |-> success, document |-> document, message |-> message]

\* the Document object built from a stored row
documentOf(row) ==
  [id |-> row.id, userId |-> row.user_id, filename |-> row.filename,
   originalName |-> row.original_name, hash |-> row.hash,
   signature |-> row.signature, timestamp |-> row.timestamp,
   fileSize |-> row.file_size,
   metadata |->
     [ownerName |-> row.owner_name, description |-> row.description,
      documentType |-> row.document_type, workType |-> row.work_type,
      proofOfWork |->
        IF row.proof_of_work_name # ""
          THEN [filename |-> row.proof_of_work_name, hash |-> row.proof_of_work_hash]
          ELSE Null]]

\* getCurrentUser() has returned inside uploadDocument
uploadGotUser(c, locals, user) ==
  IF user = Null
    THEN Finish(c, "uploadDocument", locals.args,
                uploadResult(FALSE, Null, "User not authenticated"))
    ELSE Goto(c, "upload_hash",
              [op |-> "uploadDocument", args |-> locals.args, user |-> user])

\* --------------------------------------------------------- getCurrentUser
\* getCurrentUser returns `user`, to its caller in the page or to
\* uploadDocument
getCurrentUserReturn(c, locals, user) ==
  IF locals.op = "getCurrentUser"
    THEN Finish(c, "getCurrentUser", Null, user)
    ELSE uploadGotUser(c, locals, user)

\* new Date(session.expiresAt) < new Date()
expired_early(session) == session.expiresAt <= now

expired_off(session) == session.expiresAt + SessionTTL < now

expired(session) == session.expiresAt < now

\* the synchronous head of getCurrentUser: a missing session and an expired
\* one both give null, the expired one being removed
getCurrentUserCall(c, locals, ensure) ==
  IF inventa_session = Null
    THEN /\ getCurrentUserReturn(c, locals, Null)
         /\ UNCHANGED inventa_session
    ELSE IF expired(inventa_session)
      THEN /\ inventa_session' = Null
           /\ getCurrentUserReturn(c, locals, Null)
      ELSE /\ Goto(c, "getCurrentUser_ensure",
                   [op |-> locals.op, args |-> locals.args,
                    session |-> inventa_session, ensure |-> ensure])
           /\ UNCHANGED inventa_session

getCurrentUserStart(c) ==
  /\ Free(c)
  /\ getCurrentUserCall(c, [op |-> "getCurrentUser", args |-> Null], ensureConnectionCall)
  /\ UNCHANGED <<modvars, inventa_users, inventa_documents, inventa_login_history,
                 sbvars, now, uivars>>

\* await ensureConnection() resolves; the localStorage branch answers from
\* inventa_users, the Supabase branch awaits auth.getUser()
getCurrentUserEnsured(c) ==
  /\ pc[c] = "getCurrentUser_ensure"
  /\ ensureConnection(c)
  /\ IF useSupabase'
       THEN Goto(c, "getCurrentUser_getUser", loc[c])
       ELSE getCurrentUserReturn(c, loc[c],
              IF hasId(inventa_users, loc[c].session.userId)
                THEN userOf(byId(inventa_users, loc[c].session.userId))
                ELSE Null)
  /\ UNCHANGED <<lsvars, sbvars, now, uivars>>

\* auth.getUser() answers with the user of the Supabase Auth session
getCurrentUserGetUser(c) ==
  /\ pc[c] = "getCurrentUser_getUser"
  /\ IF authSession # NullId
       THEN Goto(c, "getCurrentUser_selectAuth",
                 loc[c] @@ [authUser |-> byId(authUsers, authSession)])
       ELSE Goto(c, "getCurrentUser_selectSession", loc[c])
  /\ UNCHANGED <<modvars, lsvars, sbvars, now, uivars>>

\* the users row of the Auth user arrives; without one the Auth metadata
\* is returned
getCurrentUserSelectAuth(c) ==
  /\ pc[c] = "getCurrentUser_selectAuth"
  /\ LET au == loc[c].authUser IN
     getCurrentUserReturn(c, loc[c],
       IF hasId(tblUsers, au.id)
         THEN userOf(byId(tblUsers, au.id))
         ELSE [id |-> au.id, email |-> au.email,
               username |-> orElse(au.user_metadata.username, au.email),
               publicKey |-> au.user_metadata.public_key,
               privateKey |-> au.user_metadata.private_key_encrypted])
  /\ UNCHANGED <<modvars, lsvars, sbvars, now, uivars>>

\* no Auth user: the users row of session.userId arrives
getCurrentUserSelectSession(c) ==
  /\ pc[c] = "getCurrentUser_selectSession"
  /\ getCurrentUserReturn(c, loc[c],
       IF hasId(tblUsers, loc[c].session.userId)
         THEN userOf(byId(tblUsers, loc[c].session.userId))
         ELSE Null)
  /\ UNCHANGED <<modvars, lsvars, sbvars, now, uivars>>

getCurrentUser(c) ==
  \/ getCurrentUserStart(c)
  \/ getCurrentUserEnsured(c)
  \/ getCurrentUserGetUser(c)
  \/ getCurrentUserSelectAuth(c)
  \/ getCurrentUserSelectSession(c)

\* ------------------------------------------------------ SessionStorage.get
\* storage.ts: the stored session, or null for none and for one whose expiry
\* Date.now() has passed, which is cleared
SessionStorageGet(c) ==
  /\ Free(c)
  /\ IF inventa_session = Null
       THEN /\ Finish(c, "SessionStorage.get", Null, Null)
            /\ UNCHANGED inventa_session
       ELSE IF now > inventa_session.expiresAt
         THEN /\ inventa_session' = Null
              /\ Finish(c, "SessionStorage.get", Null, Null)
         ELSE /\ Finish(c, "SessionStorage.get", Null, inventa_session)
              /\ UNCHANGED inventa_session
  /\ UNCHANGED <<modvars, inventa_users, inventa_documents, inventa_login_history,
                 sbvars, now, uivars>>

\* ------------------------------------------------- uploadDocument, steps
\* .select().eq(column, value).single(): the row when exactly one row
\* matches, otherwise no data
matches_prefix(table, hash) ==
  { i \in 1 .. Len(table) :
      /\ Len(hash) <= Len(table[i].hash)
      /\ SubSeq(table[i].hash, 1, Len(hash)) = hash }

matches(table, hash) == { i \in 1 .. Len(table) : table[i].hash = hash }

hasSingle(table, hash) == Cardinality(matches(table, hash)) = 1

single(table, hash) == table[CHOOSE i \in matches(table, hash) : TRUE]

\* docs.find(d => d.hash === hash)
hasHash_none(docs, hash) == FALSE

hasHash(docs, hash) == matches(docs, hash) # {}

findHash(docs, hash) ==
  docs[CHOOSE i \in matches(docs, hash) : \A j \in matches(docs, hash) : i <= j]

docIds ==
  { inventa_documents[i].id : i \in 1 .. Len(inventa_documents) }
    \cup { tblDocuments[i].id : i \in 1 .. Len(tblDocuments) }
    \cup { loc[c].newDocument.id :
             c \in { d \in Calls : pc[d] \notin {"idle", "done"}
                                    /\ "newDocument" \in DOMAIN loc[d] } }

newDocumentId == CHOOSE n \in 1 .. (Cardinality(docIds) + 1) : n \notin docIds

duplicateMessage_swapped(existing, userId) ==
  IF existing.user_id # userId
    THEN "You have already registered this document"
    ELSE "This document has already been registered by another user"

duplicateMessage(existing, userId) ==
  IF existing.user_id = userId
    THEN "You have already registered this document"
    ELSE "This document has already been registered by another user"

\* while the calls are made one after the other, an upload of bytes that are
\* registered already adds no record and is not held back by the bound
uploadStart(c, userId, data, budget) ==
  /\ Free(c)
  /\ \/ records < budget
     \/ /\ \A d \in Calls \ {c} : pc[d] = "idle"
        /\ hasHash(inventa_documents \o tblDocuments, generateSHA256Hash(data.file))
  /\ Goto(c, "upload_ensure",
          [op |-> "uploadDocument", args |-> [userId |-> userId, data |-> data],
           ensure |-> ensureConnectionCall])
  /\ UNCHANGED <<modvars, lsvars, sbvars, now, uivars>>

\* await ensureConnection() resolves and getCurrentUser() is called
uploadEnsured(c) ==
  /\ pc[c] = "upload_ensure"
  /\ ensureConnection(c)
  /\ getCurrentUserCall(c, loc[c], ensureConnectionAgain)
  /\ UNCHANGED <<inventa_users, inventa_documents, inventa_login_history, sbvars, now, uivars>>

uploadSign_swapped(c, hash) ==
  Goto(c, "upload_sign",
       [op |-> "uploadDocument", args |-> loc[c].args, user |-> loc[c].user,
        hash |-> hash, timestamp |-> now,
        dataToSign |-> <<hash, now, loc[c].args.userId>>])

\* the duplicate check found nothing: the timestamp is taken, the string to
\* sign is built and signData is awaited
uploadSign(c, hash) ==
  Goto(c, "upload_sign",
       [op |-> "uploadDocument", args |-> loc[c].args, user |-> loc[c].user,
        hash |-> hash, timestamp |-> now,
        dataToSign |-> <<hash, loc[c].args.userId, now>>])

\* generateSHA256Hash(file) arrives; the duplicate check is a Supabase
\* select or a scan of inventa_documents
uploadHashed(c) ==
  /\ pc[c] = "upload_hash"
  /\ LET hash == generateSHA256Hash(loc[c].args.data.file) IN
     IF useSupabase
       THEN Goto(c, "upload_check", loc[c] @@ [hash |-> hash])
       ELSE IF hasHash(inventa_documents, hash)
         THEN Return(c, uploadResult(FALSE, Null,
                duplicateMessage(findHash(inventa_documents, hash), loc[c].args.userId)))
         ELSE uploadSign(c, hash)
  /\ UNCHANGED <<modvars, lsvars, sbvars, now, uivars>>

\* the select of the duplicate check answers
uploadChecked(c) ==
  /\ pc[c] = "upload_check"
  /\ IF hasSingle(tblDocuments, loc[c].hash)
       THEN Return(c, uploadResult(FALSE, Null,
              duplicateMessage(single(tblDocuments, loc[c].hash), loc[c].args.userId)))
       ELSE uploadSign(c, loc[c].hash)
  /\ UNCHANGED <<modvars, lsvars, sbvars, now, uivars>>

\* the row to store, once the signature and the proof-of-work hash are known
newDocument(c, signature, proofOfWorkName, proofOfWorkHash) ==
  [id |-> newDocumentId, user_id |-> loc[c].args.userId,
   filename |-> loc[c].args.data.file.name,
   original_name |-> loc[c].args.data.file.name,
   hash |-> loc[c].hash, signature |-> signature, timestamp |-> loc[c].timestamp,
   file_size |-> loc[c].args.data.file.size,
   owner_name |-> loc[c].args.data.ownerName,
   description |-> loc[c].args.data.description,
   document_type |-> loc[c].args.data.documentType,
   work_type |-> loc[c].args.data.workType,
   proof_of_work_name |-> proofOfWorkName,
   proof_of_work_hash |-> proofOfWorkHash,
   created_at |-> loc[c].timestamp]

uploadStore_resign(c, row) ==
  IF useSupabase
    THEN /\ Goto(c, "upload_insert", loc[c] @@ [newDocument |-> row])
         /\ UNCHANGED inventa_documents
    ELSE /\ inventa_documents' =
              Append([i \in 1 .. Len(inventa_documents) |->
                        [inventa_documents[i] EXCEPT !.signature = row.signature]], row)
         /\ Return(c, uploadResult(TRUE, documentOf(row), "Document registered successfully!"))

\* the insert: awaited from Supabase, or pushed onto inventa_documents
uploadStore(c, row) ==
  IF useSupabase
    THEN /\ Goto(c, "upload_insert", loc[c] @@ [newDocument |-> row])
         /\ UNCHANGED inventa_documents
    ELSE /\ inventa_documents' = Append(inventa_documents, row)
         /\ Return(c, uploadResult(TRUE, documentOf(row), "Document registered successfully!"))

uploadSigned_early(c) ==
  /\ pc[c] = "upload_sign"
  /\ IF ~ validPrivateKey(loc[c].user.privateKey)
       THEN /\ Return(c, uploadResult(FALSE, Null, "Upload failed. Please try again."))
            /\ UNCHANGED inventa_documents
       ELSE LET signature == signData(loc[c].dataToSign, loc[c].user.privateKey) IN
            IF loc[c].args.data.proofOfWork # Null
              THEN /\ Goto(c, "upload_proof", loc[c] @@ [signature |-> signature])
                   /\ inventa_documents' =
                        IF useSupabase THEN inventa_documents
                        ELSE Append(inventa_documents, newDocument(c, signature, "", <<>>))
              ELSE uploadStore(c, newDocument(c, signature, "", <<>>))
  /\ UNCHANGED <<modvars, inventa_users, inventa_login_history, inventa_session,
                 sbvars, now, uivars>>

\* signData answers: a rejected importKey is caught as a failed upload
uploadSigned(c) ==
  /\ pc[c] = "upload_sign"
  /\ IF ~ validPrivateKey(loc[c].user.privateKey)
       THEN /\ Return(c, uploadResult(FALSE, Null, "Upload failed. Please try again."))
            /\ UNCHANGED inventa_documents
       ELSE LET signature == signData(loc[c].dataToSign, loc[c].user.privateKey) IN
            IF loc[c].args.data.proofOfWork # Null
              THEN /\ Goto(c, "upload_proof", loc[c] @@ [signature |-> signature])
                   /\ UNCHANGED inventa_documents
              ELSE uploadStore(c, newDocument(c, signature, "", <<>>))
  /\ UNCHANGED <<modvars, inventa_users, inventa_login_history, inventa_session,
                 sbvars, now, uivars>>

\* generateSHA256Hash(proofOfWork) arrives
uploadProof(c) ==
  /\ pc[c] = "upload_proof"
  /\ uploadStore(c, newDocument(c, loc[c].signature,
                                loc[c].args.data.proofOfWork.name,
                                generateSHA256Hash(loc[c].args.data.proofOfWork)))
  /\ UNCHANGED <<modvars, inventa_users, inventa_login_history, inventa_session,
                 sbvars, now, uivars>>

\* the insert into documents returns without an error
uploadInserted(c) ==
  /\ pc[c] = "upload_insert"
  /\ tblDocuments' = Append(tblDocuments, loc[c].newDocument)
  /\ Return(c, uploadResult(TRUE, documentOf(loc[c].newDocument),
                            "Document registered successfully!"))
  /\ UNCHANGED <<modvars, lsvars, authUsers, authSession, tblUsers, tblLoginHistory, now, uivars>>

uploadDocument(c, budget) ==
  \/ \E userId \in userIds, data \in UploadInputs : uploadStart(c, userId, data, budget)
  \/ uploadEnsured(c)
  \/ uploadHashed(c)
  \/ uploadChecked(c)
  \/ uploadSigned(c)
  \/ uploadProof(c)
  \/ uploadInserted(c)

\* --------------------------------------------------------- verifyDocument
VerifyInputs ==
  [kind : {"file"}, file : {FileF, FileH}]
    \cup [kind : {"string"}, text : { <<" ", "e", "3">>, <<"e">> }]

notFound(hash) ==
  [verified |-> FALSE, document |-> Null, owner |-> Null,
   message |-> "Document not found. This document has not been registered yet.",
   hash |-> hash]

found(doc, owner, hash) ==
  [verified |-> TRUE, document |-> documentOf(doc), owner |-> owner,
   message |-> "Document verified! This document is registered.",
   hash |-> hash]

\* the owner summary of a users row
ownerOf(row) ==
  [id |-> row.id, email |-> row.email, username |-> row.username,
   publicKey |-> row.public_key]

\* the document is known: the owner comes from a Supabase select or from
\* inventa_users
verifyOwnerOf(c, foundDoc, hash) ==
  IF useSupabase
    THEN Goto(c, "verify_owner", loc[c] @@ [foundDoc |-> foundDoc, hash |-> hash])
    ELSE Return(c, found(foundDoc,
                         IF hasId(inventa_users, foundDoc.user_id)
                           THEN ownerOf(byId(inventa_users, foundDoc.user_id))
                           ELSE Null,
                         hash))

\* the fingerprint is known: the lookup is a Supabase select or a scan of
\* inventa_documents
verifyLookup_signedIn(c, hash, supabase) ==
  IF inventa_session = Null
    THEN Return(c, notFound(hash))
    ELSE IF supabase
      THEN Goto(c, "verify_select", [op |-> loc[c].op, args |-> loc[c].args, hash |-> hash])
      ELSE IF hasHash(inventa_documents, hash)
        THEN verifyOwnerOf(c, findHash(inventa_documents, hash), hash)
        ELSE Return(c, notFound(hash))

verifyLookup(c, hash, supabase) ==
  IF supabase
    THEN Goto(c, "verify_select", [op |-> loc[c].op, args |-> loc[c].args, hash |-> hash])
    ELSE IF hasHash(inventa_documents, hash)
      THEN verifyOwnerOf(c, findHash(inventa_documents, hash), hash)
      ELSE Return(c, notFound(hash))

\* the call of verifyDocument, up to its await of ensureConnection
verifyCall(c, fileOrHash) ==
  Goto(c, "verify_ensure",
       [op |-> "verifyDocument", args |-> fileOrHash, ensure |-> ensureConnectionCall])

verifyStart(c, fileOrHash) ==
  /\ Free(c)
  /\ verifyCall(c, fileOrHash)
  /\ UNCHANGED <<modvars, lsvars, sbvars, now, uivars>>

\* await ensureConnection() resolves; a typed string is trimmed, a file is
\* sent to generateSHA256Hash
verifyEnsured(c) ==
  /\ pc[c] = "verify_ensure"
  /\ ensureConnection(c)
  /\ IF loc[c].args.kind = "string"
       THEN verifyLookup(c, trim(loc[c].args.text), useSupabase')
       ELSE Goto(c, "verify_hash", [op |-> loc[c].op, args |-> loc[c].args])
  /\ UNCHANGED <<lsvars, sbvars, now, uivars>>

verifyHashed(c) ==
  /\ pc[c] = "verify_hash"
  /\ verifyLookup(c, generateSHA256Hash(loc[c].args.file), useSupabase)
  /\ UNCHANGED <<modvars, lsvars, sbvars, now, uivars>>

\* the select on documents answers
verifySelect(c) ==
  /\ pc[c] = "verify_select"
  /\ IF hasSingle(tblDocuments, loc[c].hash)
       THEN verifyOwnerOf(c, single(tblDocuments, loc[c].hash), loc[c].hash)
       ELSE Return(c, notFound(loc[c].hash))
  /\ UNCHANGED <<modvars, lsvars, sbvars, now, uivars>>

\* the select on users answers
verifyOwner(c) ==
  /\ pc[c] = "verify_owner"
  /\ Return(c, found(loc[c].foundDoc,
                     IF hasId(tblUsers, loc[c].foundDoc.user_id)
                       THEN ownerOf(byId(tblUsers, loc[c].foundDoc.user_id))
                       ELSE Null,
                     loc[c].hash))
  /\ UNCHANGED <<modvars, lsvars, sbvars, now, uivars>>

verifyDocument(c) ==
  \/ \E fileOrHash \in VerifyInputs : verifyStart(c, fileOrHash)
  \/ verifyEnsured(c)
  \/ verifyHashed(c)
  \/ verifySelect(c)
  \/ verifyOwner(c)

\* the operation of the call a slot holds or held last
opOf(locals) == IF "op" \in DOMAIN locals THEN locals.op ELSE "none"

\* ------------------------------------------------------- getUserDocuments
\* docs.filter(d => d.user_id === userId)
ownedBy(table, userId) == SelectSeq(table, LAMBDA row : row.user_id = userId)

\* Array.prototype.sort with (a, b) => time(b.timestamp) - time(a.timestamp):
\* a stable sort, newest first; insertAfterNewer puts doc behind every
\* document that is not older
RECURSIVE insertAfterNewer_older(_, _)
insertAfterNewer_older(sorted, doc) ==
  IF sorted = <<>> THEN <<doc>>
  ELSE IF Head(sorted).timestamp <= doc.timestamp
    THEN <<Head(sorted)>> \o insertAfterNewer_older(Tail(sorted), doc)
    ELSE <<doc>> \o sorted

RECURSIVE insertAfterNewer(_, _)
insertAfterNewer(sorted, doc) ==
  IF sorted = <<>> THEN <<doc>>
  ELSE IF Head(sorted).timestamp >= doc.timestamp
    THEN <<Head(sorted)>> \o insertAfterNewer(Tail(sorted), doc)
    ELSE <<doc>> \o sorted

RECURSIVE sortNewestFirst(_)
sortNewestFirst(docs) ==
  IF docs = <<>> THEN <<>>
  ELSE insertAfterNewer(sortNewestFirst(SubSeq(docs, 1, Len(docs) - 1)), docs[Len(docs)])

\* the value of the column by which a select orders: the created_at of a
\* users row and the login_time of a login event are not kept in the rows,
\* so that an order by them is any order
orderKey(row, column) ==
  IF column \in DOMAIN row THEN row[column] ELSE 0

\* .order(column, { ascending: false }): the rows in an order of descending
\* key, rows with the same key in any order
orderings(rows, column) ==
  { order \in [1 .. Len(rows) -> 1 .. Len(rows)] :
      /\ \A i, j \in 1 .. Len(rows) : i # j => order[i] # order[j]
      /\ \A i, j \in 1 .. Len(rows) :
           i < j => orderKey(rows[order[i]], column) >= orderKey(rows[order[j]], column) }

getUserDocumentsStart(c, userId) ==
  /\ Free(c)
  /\ Goto(c, "docs_ensure",
          [op |-> "getUserDocuments", args |-> userId, ensure |-> ensureConnectionCall])
  /\ UNCHANGED <<modvars, lsvars, sbvars, now, uivars>>

\* await ensureConnection() resolves: the select goes out, or the documents
\* of inventa_documents are filtered, mapped and sorted
getUserDocumentsEnsured(c) ==
  /\ pc[c] = "docs_ensure"
  /\ ensureConnection(c)
  /\ IF useSupabase'
       THEN Goto(c, "docs_select", [op |-> loc[c].op, args |-> loc[c].args])
       ELSE LET owned == ownedBy(inventa_documents, loc[c].args) IN
            Return(c, sortNewestFirst([i \in 1 .. Len(owned) |-> documentOf(owned[i])]))
  /\ UNCHANGED <<lsvars, sbvars, now, uivars>>

\* the select on documents answers
getUserDocumentsSelect(c) ==
  /\ pc[c] = "docs_select"
  /\ LET rows == ownedBy(tblDocuments, loc[c].args) IN
     \E order \in orderings(rows, "created_at") :
       Return(c, [i \in 1 .. Len(rows) |-> documentOf(rows[order[i]])])
  /\ UNCHANGED <<modvars, lsvars, sbvars, now, uivars>>

getUserDocuments(c) ==
  \/ \E userId \in userIds : getUserDocumentsStart(c, userId)
  \/ getUserDocumentsEnsured(c)
  \/ getUserDocumentsSelect(c)

\* ------------------------------------------------- admin and stats reads
count(rows, status) == Len(SelectSeq(rows, LAMBDA l : l.status = status))

statsResult(users, documents, logins, storageMode) ==
  [totalUsers |-> users, totalDocuments |-> documents, totalLogins |-> Len(logins),
   successfulLogins |-> count(logins, "success"),
   failedLogins |-> count(logins, "failed"),
   storageMode |-> storageMode]

getStatsStart(c) ==
  /\ Free(c)
  /\ Goto(c, "stats_ensure",
          [op |-> "getStats", args |-> Null, ensure |-> ensureConnectionCall])
  /\ UNCHANGED <<modvars, lsvars, sbvars, now, uivars>>

\* await ensureConnection() resolves: three selects go out together, or the
\* three localStorage keys are read
getStatsEnsured(c) ==
  /\ pc[c] = "stats_ensure"
  /\ ensureConnection(c)
  /\ IF useSupabase'
       THEN Goto(c, "stats_all",
                 [op |-> loc[c].op, args |-> loc[c].args, pending |-> {"users", "documents", "logins"},
                  users |-> 0, documents |-> 0, logins |-> <<>>])
       ELSE Return(c, statsResult(Len(inventa_users), Len(inventa_documents),
                                  inventa_login_history, "localStorage"))
  /\ UNCHANGED <<lsvars, sbvars, now, uivars>>

\* one of the three selects of Promise.all answers; the last answer resolves
\* the await
getStatsAnswer(c, request) ==
  /\ pc[c] = "stats_all"
  /\ request \in loc[c].pending
  /\ LET locals == [loc[c] EXCEPT
                      !.pending = @ \ {request},
                      !.users = IF request = "users" THEN Len(tblUsers) ELSE @,
                      !.documents = IF request = "documents" THEN Len(tblDocuments) ELSE @,
                      !.logins = IF request = "logins" THEN tblLoginHistory ELSE @]
     IN  IF locals.pending = {}
           THEN Return(c, statsResult(locals.users, locals.documents, locals.logins, "supabase"))
           ELSE Goto(c, "stats_all", locals)
  /\ UNCHANGED <<modvars, lsvars, sbvars, now, uivars>>

getStats(c) ==
  \/ getStatsStart(c)
  \/ getStatsEnsured(c)
  \/ \E request \in {"users", "documents", "logins"} : getStatsAnswer(c, request)

\* the StoredLoginHistory object of a login event
loginHistoryOf(l) ==
  [userId |-> l.user_id, userEmail |-> l.user_email, userName |-> l.user_name,
   status |-> l.status, failReason |-> l.fail_reason]

\* what a list read returns for the rows it got
listOf(table, rows) ==
  [i \in 1 .. Len(rows) |->
     IF table = "users" THEN ownerOf(rows[i])
     ELSE IF table = "documents" THEN documentOf(rows[i])
     ELSE loginHistoryOf(rows[i])]

localRows(table) ==
  IF table = "users" THEN inventa_users
  ELSE IF table = "documents" THEN inventa_documents
  ELSE inventa_login_history

\* the rows of a Supabase table in an order that its select may give
selected(table) ==
  IF table = "users"
    THEN { [i \in 1 .. Len(tblUsers) |-> tblUsers[order[i]]] :
             order \in orderings(tblUsers, "created_at") }
  ELSE IF table = "documents"
    THEN { [i \in 1 .. Len(tblDocuments) |-> tblDocuments[order[i]]] :
             order \in orderings(tblDocuments, "created_at") }
  ELSE { [i \in 1 .. Len(tblLoginHistory) |-> tblLoginHistory[order[i]]] :
           order \in orderings(tblLoginHistory, "login_time") }

\* getAllUsers, getAllDocuments and getLoginHistory: the same three steps
\* over the table of each
tableOf(op) ==
  IF op = "getAllUsers" THEN "users"
  ELSE IF op = "getAllDocuments" THEN "documents"
  ELSE "login_history"

getAllStart(c, op) ==
  /\ Free(c)
  /\ Goto(c, "all_ensure", [op |-> op, args |-> Null, ensure |-> ensureConnectionCall])
  /\ UNCHANGED <<modvars, lsvars, sbvars, now, uivars>>

getAllEnsured(c) ==
  /\ pc[c] = "all_ensure"
  /\ ensureConnection(c)
  /\ IF useSupabase'
       THEN Goto(c, "all_select", [op |-> loc[c].op, args |-> loc[c].args])
       ELSE Return(c, listOf(tableOf(loc[c].op), localRows(tableOf(loc[c].op))))
  /\ UNCHANGED <<lsvars, sbvars, now, uivars>>

getAllSelect(c) ==
  /\ pc[c] = "all_select"
  /\ \E rows \in selected(tableOf(loc[c].op)) :
       Return(c, listOf(tableOf(loc[c].op), rows))
  /\ UNCHANGED <<modvars, lsvars, sbvars, now, uivars>>

getAllUsers(c) ==
  \/ getAllStart(c, "getAllUsers")
  \/ opOf(loc[c]) = "getAllUsers" /\ (getAllEnsured(c) \/ getAllSelect(c))

getAllDocuments(c) ==
  \/ getAllStart(c, "getAllDocuments")
  \/ opOf(loc[c]) = "getAllDocuments" /\ (getAllEnsured(c) \/ getAllSelect(c))

getLoginHistory(c) ==
  \/ getAllStart(c, "getLoginHistory")
  \/ opOf(loc[c]) = "getLoginHistory" /\ (getAllEnsured(c) \/ getAllSelect(c))

\* exportAllData: getAllUsers, getAllDocuments and getLoginHistory are called
\* together under Promise.all; each part advances by itself and the last one
\* to return resolves the await
ExportParts == {"users", "documents", "login_history"}

exportAllDataStart(c) ==
  /\ Free(c)
  /\ Goto(c, "export_all",
          [op |-> "exportAllData", args |-> Null,
           parts |-> [t \in ExportParts |->
                        [pc |-> "ensure", ensure |-> ensureConnectionCall, value |-> <<>>]]])
  /\ UNCHANGED <<modvars, lsvars, sbvars, now, uivars>>

\* part t has its list: with every part done exportAllData returns
exportPartDone(c, t, value) ==
  LET parts == [loc[c].parts EXCEPT ![t] = [pc |-> "done", ensure |-> "ready", value |-> value]]
  IN  IF \A u \in ExportParts : parts[u].pc = "done"
        THEN Return(c, [users |-> parts["users"].value,
                        documents |-> parts["documents"].value,
                        loginHistory |-> parts["login_history"].value,
                        exportedAt |-> now])
        ELSE Goto(c, "export_all", [loc[c] EXCEPT !.parts = parts])

exportAllDataEnsured(c, t) ==
  /\ pc[c] = "export_all"
  /\ loc[c].parts[t].pc = "ensure"
  /\ ensureConnectionResolved(loc[c].parts[t].ensure)
  /\ IF useSupabase'
       THEN Goto(c, "export_all", [loc[c] EXCEPT !.parts[t].pc = "select"])
       ELSE exportPartDone(c, t, listOf(t, localRows(t)))
  /\ UNCHANGED <<lsvars, sbvars, now, uivars>>

exportAllDataSelect(c, t) ==
  /\ pc[c] = "export_all"
  /\ loc[c].parts[t].pc = "select"
  /\ \E rows \in selected(t) : exportPartDone(c, t, listOf(t, rows))
  /\ UNCHANGED <<modvars, lsvars, sbvars, now, uivars>>

exportAllData(c) ==
  \/ exportAllDataStart(c)
  \/ \E t \in ExportParts : exportAllDataEnsured(c, t)
  \/ \E t \in ExportParts : exportAllDataSelect(c, t)

\* ---------------------------------------------------------- the Verify page
\* what the visitor selects and types
PageFiles == { FileF, FileH }

PageTexts == { <<" ", "e", "3">>, <<"e">> }

\* handleReset: the four setters
handleResetState(page) ==
  [page EXCEPT !.file = Null, !.hash = <<>>, !.result = Null, !.computedHash = <<>>]

\* a method tab is clicked: setMethod(method); handleReset()
selectMethod(method) ==
  /\ verifyPage' = [handleResetState(verifyPage) EXCEPT !.method = method]
  /\ UNCHANGED <<modvars, lsvars, sbvars, now, authContext, pc, loc, ret>>

\* "Verify Another Document", shown with the result
handleReset ==
  /\ verifyPage.result # Null
  /\ verifyPage' = handleResetState(verifyPage)
  /\ UNCHANGED <<modvars, lsvars, sbvars, now, authContext, pc, loc, ret>>

\* a file is dropped or chosen in the input section, which is shown while
\* there is no result: setFile, setResult(null), and generateSHA256Hash is
\* awaited
handleFileSelect(selectedFile) ==
  /\ verifyPage.method = "file"
  /\ verifyPage.result = Null
  /\ verifyPage' = [verifyPage EXCEPT !.file = selectedFile, !.result = Null,
                                      !.hashing = @ \cup {selectedFile}]
  /\ UNCHANGED <<modvars, lsvars, sbvars, now, authContext, pc, loc, ret>>

\* generateSHA256Hash(selectedFile) of an earlier handleFileSelect arrives:
\* setComputedHash(fileHash)
handleFileSelectHashed(selectedFile) ==
  /\ selectedFile \in verifyPage.hashing
  /\ verifyPage' = [verifyPage EXCEPT !.computedHash = generateSHA256Hash(selectedFile),
                                      !.hashing = @ \ {selectedFile}]
  /\ UNCHANGED <<modvars, lsvars, sbvars, now, authContext, pc, loc, ret>>

\* the hash field is edited
setHash(text) ==
  /\ verifyPage.method = "hash"
  /\ verifyPage.result = Null
  /\ verifyPage' = [verifyPage EXCEPT !.hash = text]
  /\ UNCHANGED <<modvars, lsvars, sbvars, now, authContext, pc, loc, ret>>

\* the Verify button, enabled with an input and while no verification runs:
\* setIsVerifying(true), setResult(null) and the call of verifyDocument
handleVerify_noHash(c) ==
  /\ verifyPage.result = Null
  /\ ~ verifyPage.isVerifying
  /\ IF verifyPage.method = "file" THEN verifyPage.file # Null
                                   ELSE verifyPage.hash # <<>>
  /\ Free(c)
  /\ verifyPage' = [verifyPage EXCEPT !.isVerifying = TRUE, !.result = Null,
                                      !.awaiting = TRUE]
  /\ IF verifyPage.method = "file"
       THEN Goto(c, "verify_select",
                 [op |-> "verifyDocument",
                  args |-> [kind |-> "file", file |-> verifyPage.file],
                  hash |-> verifyPage.computedHash])
       ELSE verifyCall(c, [kind |-> "string", text |-> verifyPage.hash])
  /\ UNCHANGED <<modvars, lsvars, sbvars, now, authContext>>

handleVerify(c) ==
  /\ verifyPage.result = Null
  /\ ~ verifyPage.isVerifying
  /\ IF verifyPage.method = "file" THEN verifyPage.file # Null
                                   ELSE verifyPage.hash # <<>>
  /\ Free(c)
  /\ verifyPage' = [verifyPage EXCEPT !.isVerifying = TRUE, !.result = Null,
                                      !.awaiting = TRUE]
  /\ IF verifyPage.method = "file"
       THEN verifyCall(c, [kind |-> "file", file |-> verifyPage.file])
       ELSE verifyCall(c, [kind |-> "string", text |-> verifyPage.hash])
  /\ UNCHANGED <<modvars, lsvars, sbvars, now, authContext>>

\* verifyDocument has returned: setResult(verifyResult), and in the finally
\* setIsVerifying(false)
handleVerifyResult(c) ==
  /\ verifyPage.awaiting
  /\ pc[c] = "done" /\ opOf(loc[c]) = "verifyDocument"
  /\ verifyPage' = [verifyPage EXCEPT !.result = ret[c], !.isVerifying = FALSE,
                                      !.awaiting = FALSE]
  /\ UNCHANGED <<modvars, lsvars, sbvars, now, authContext, pc, loc, ret>>

\* the page, with its verifyDocument call in slot c
Verify(c) ==
  \/ \E method \in {"file", "hash"} : selectMethod(method)
  \/ handleReset
  \/ \E selectedFile \in PageFiles : handleFileSelect(selectedFile)
  \/ \E selectedFile \in PageFiles : handleFileSelectHashed(selectedFile)
  \/ \E text \in PageTexts : setHash(text)
  \/ handleVerify(c)
  \/ pc[c] \notin {"idle", "done"} /\ verifyDocument(c)
  \/ handleVerifyResult(c)

\* --------------------------------------------------------- deleteDocument
\* DocumentStorage.delete: the stored documents without the one with the id
DocumentStorageDelete_all(docs, id) == <<>>

DocumentStorageDelete(docs, id) == SelectSeq(docs, LAMBDA d : d.id # id)

\* the user of the stored session, NullId without a current session
sessionUserId ==
  IF inventa_session = Null \/ expired(inventa_session)
    THEN NullId
    ELSE inventa_session.userId

\* deleteDocument(documentId) of the dashboard, a synchronous call: success
\* for the owner, an error for an unknown document and for any other caller
deleteDocument(c, documentId) ==
  /\ Free(c)
  /\ LET docs == inventa_documents \o tblDocuments IN
     IF ~ hasId(docs, documentId)
       THEN /\ Finish(c, "deleteDocument", documentId,
                      [success |-> FALSE, error |-> "Document not found"])
            /\ UNCHANGED <<inventa_documents, tblDocuments>>
       ELSE IF byId(docs, documentId).user_id # sessionUserId
         THEN /\ Finish(c, "deleteDocument", documentId,
                        [success |-> FALSE, error |-> "not owner"])
              /\ UNCHANGED <<inventa_documents, tblDocuments>>
         ELSE /\ inventa_documents' = DocumentStorageDelete(inventa_documents, documentId)
              /\ tblDocuments' = DocumentStorageDelete(tblDocuments, documentId)
              /\ Finish(c, "deleteDocument", documentId, [success |-> TRUE, error |-> ""])
  /\ UNCHANGED <<modvars, inventa_users, inventa_login_history, inventa_session,
                 authUsers, authSession, tblUsers, tblLoginHistory, now, uivars>>

\* the reads of the document list and of the admin page
Read(c) ==
  \/ getUserDocuments(c)
  \/ getStats(c)
  \/ getAllUsers(c)
  \/ getAllDocuments(c)
  \/ getLoginHistory(c)
  \/ exportAllData(c)

\* ------------------------------------------------------ the specifications
Step(c, budget) ==
  \/ register(c, budget)
  \/ login(c, budget)
  \/ logout(c)
  \/ getCurrentUser(c)
  \/ SessionStorageGet(c)
  \/ uploadDocument(c, budget)
  \/ verifyDocument(c)

\* calls made one after the other, each awaited before the next is made
Next ==
  \/ Tick
  \/ authSessionEnds
  \/ Step(1, MaxRecords)

Spec == Init /\ [][Next]_vars

\* uploadDocument calls in flight beside the calls of slot 1 (a second
\* submit, a second tab), the continuations interleaved at the awaits; the
\* clock, which counts weeks, stands still meanwhile
NextConc ==
  \/ authSessionEnds
  \/ Step(1, MaxConcRecords)
  \/ \E c \in Calls \ {1} :
       \/ uploadDocument(c, MaxConcRecords)
       \/ pc[c] \notin {"idle", "done"} /\ getCurrentUser(c)

SpecConc == Init /\ [][NextConc]_vars

\* ------------------------------------------------------- the AuthProvider
\* A click and a storage event are tasks of the event loop: none runs while
\* a continuation waits on a promise that is already resolved, which is a
\* finished call whose caller has not resumed and an ensureConnection that
\* returned at once.
resumes(c) ==
  \/ pc[c] = "done" /\ opOf(loc[c]) \in {"getCurrentUser", "login", "register"}
  \/ /\ pc[c] \in {"getCurrentUser_ensure", "login_ensure", "register_ensure"}
     /\ loc[c].ensure = "ready"

eventLoopIdle == \A c \in Calls : ~ resumes(c)

\* slot c holds no call whose caller waits for it
released(c) == pc[c] = "idle" \/ (pc[c] = "done" /\ opOf(loc[c]) = "logout")

\* the caller of the call in slot c has resumed
resume(c) ==
  /\ pc' = [pc EXCEPT ![c] = "idle"]
  /\ UNCHANGED <<loc, ret>>

\* refreshAuth up to its await, called by the mount effect, by the storage
\* listener of inventa_session and by pages
refreshAuthStart(c) ==
  /\ eventLoopIdle
  /\ released(c)
  /\ authContext' = [authContext EXCEPT !.isLoading = TRUE]
  /\ getCurrentUserCall(c, [op |-> "getCurrentUser", args |-> Null], ensureConnectionCall)
  /\ UNCHANGED <<modvars, inventa_users, inventa_documents, inventa_login_history,
                 sbvars, now, verifyPage>>

\* await getCurrentUser() resolves: setUser(currentUser), setIsLoading(false)
refreshAuthResolved(c) ==
  /\ pc[c] = "done"
  /\ opOf(loc[c]) = "getCurrentUser"
  /\ authContext' = [user |-> ret[c], isLoading |-> FALSE]
  /\ resume(c)
  /\ UNCHANGED <<modvars, lsvars, sbvars, now, verifyPage>>

\* logout of the context, the Navbar's button of a signed-in user: apiLogout()
\* is called and not awaited, setUser(null)
contextLogout(c) ==
  /\ eventLoopIdle
  /\ released(c)
  /\ authContext.user # Null
  /\ logoutCall(c)
  /\ authContext' = [authContext EXCEPT !.user = Null]
  /\ UNCHANGED verifyPage

\* handleSubmit of the Register and Login pages, which show their form once
\* the context has loaded and to a visitor who is not signed in
registerSubmit(c) ==
  /\ eventLoopIdle
  /\ pc[c] = "idle"
  /\ ~ authContext.isLoading
  /\ authContext.user = Null
  /\ registerStart(c, [email |-> <<"a">>, username |-> <<"u">>, password |-> "p"], MaxRecords)

loginSubmit(c) ==
  /\ eventLoopIdle
  /\ pc[c] = "idle"
  /\ ~ authContext.isLoading
  /\ authContext.user = Null
  /\ loginStart(c, [email |-> <<"a">>, password |-> "p"], MaxRecords)

\* await register(..) or await login(..) resolves in handleSubmit:
\* setUser(result.user) after a success
handleSubmitResult(c) ==
  /\ pc[c] = "done"
  /\ opOf(loc[c]) \in {"login", "register"}
  /\ authContext' = IF ret[c].success /\ ret[c].user # Null
                      THEN [authContext EXCEPT !.user = ret[c].user]
                      ELSE authContext
  /\ resume(c)
  /\ UNCHANGED <<modvars, lsvars, sbvars, now, verifyPage>>

AuthProvider(c) ==
  \/ refreshAuthStart(c)
  \/ refreshAuthResolved(c)
  \/ contextLogout(c)
  \/ registerSubmit(c)
  \/ loginSubmit(c)
  \/ handleSubmitResult(c)

\* the calls of the context and of the two pages, in flight
NextAuth ==
  \E c \in Calls :
    \/ AuthProvider(c)
    \/ registerEnsured(c) \/ registerKeys(c) \/ registerSignUp(c)
    \/ registerSbHash(c) \/ registerUpsert(c) \/ registerLocal(c)
    \/ loginEnsured(c) \/ loginSignIn(c) \/ loginSelect(c)
    \/ loginLocal(c) \/ loginHistory(c)
    \/ getCurrentUserEnsured(c) \/ getCurrentUserGetUser(c)
    \/ getCurrentUserSelectAuth(c) \/ getCurrentUserSelectSession(c)
    \/ logoutSignOut(c)

SpecAuth == Init /\ [][NextAuth]_vars

\* the Database page: fetchData makes its four reads together (Promise.all),
\* each awaiting ensureConnection on its own; the reads interleave at their
\* awaits
fetchData(c) ==
  \/ getStats(c)
  \/ getAllUsers(c)
  \/ getAllDocuments(c)
  \/ getLoginHistory(c)

NextFetch == \E c \in Calls : fetchData(c)

SpecFetch == Init /\ [][NextFetch]_vars

\* every call of the API, one after the other; the clock, which no read
\* decides by, stands still
NextAll ==
  \/ authSessionEnds
  \/ Step(1, MaxRecords)
  \/ Read(1)
  \/ \E documentId \in docIds \cup {newDocumentId} : deleteDocument(1, documentId)

SpecAll == Init /\ [][NextAll]_vars

\* users register, log in, upload over the weeks and list their documents
NextDocs ==
  \/ Tick
  \/ register(1, MaxRecords)
  \/ login(1, MaxRecords)
  \/ uploadDocument(1, MaxRecords)
  \/ pc[1] \notin {"idle", "done"} /\ getCurrentUser(1)
  \/ getUserDocuments(1)

SpecDocs == Init /\ [][NextDocs]_vars

\* a caller verifies the same document twice, by typing its fingerprint and
\* by choosing the file: the second call is made when the first has returned
\* and nothing else is done until it returns too
NextVerify ==
  \/ /\ pc[2] = "idle"
     /\ Tick \/ authSessionEnds \/ Step(1, MaxRecords)
  \/ /\ pc[1] = "done" /\ opOf(loc[1]) = "verifyDocument"
     /\ loc[1].args.kind = "string"
     /\ verifyDocument(2)
     /\ loc'[2].args.kind = "file"

SpecVerify == Init /\ [][NextVerify]_vars

\* ------------------------------------------- crypto.ts: sign and verify
\* how a promise settles
resolved(value) == [rejected |-> FALSE, value |-> value]

rejectedWith(value) == [rejected |-> TRUE, value |-> value]

\* atob accepts the empty string and every base64 text: the exported keys
\* and signatures, and other base64 text ("raw"); it throws on anything else
validBase64(text) == text = <<>> \/ text[1] \in {"pub", "priv", "sig", "raw"}

\* crypto.subtle.importKey('spki', ...) accepts exactly the exported public
\* keys
validPublicKey(key) == Len(key) = 2 /\ key[1] = "pub"

\* crypto.subtle.verify with an imported ECDSA public key: true for the
\* signature that signData made over the data with the private key of the
\* same pair, false for any other bytes
subtleVerify_anyKey(publicKey, signature, data) ==
  resolved(Len(signature) = 3 /\ signature[1] = "sig" /\ signature[3] = data)

subtleVerify(publicKey, signature, data) ==
  resolved(signature = <<"sig", publicKey[2], data>>)

\* catch { return false; }
caught_rethrow(outcome) == outcome

caught(outcome) == IF outcome.rejected THEN resolved(FALSE) ELSE outcome

\* what the callers pass: two messages, the keys of the generated pairs, the
\* signatures made with them, and absent, non-base64 and foreign values
Messages == { "m", "n" }

KeyPairs == { generateECCKeyPair(k) : k \in 1 .. MaxKeyPairs }

PrivateKeyInputs ==
  { pair.privateKey : pair \in KeyPairs } \cup { <<>>, <<"?">>, <<"raw", 0>> }

PublicKeyInputs ==
  { pair.publicKey : pair \in KeyPairs }
    \cup { <<>>, <<"?">>, <<"raw", 0>>, <<"priv", 1>> }

SignatureInputs ==
  { signData(data, pair.privateKey) : data \in Messages, pair \in KeyPairs }
    \cup { <<>>, <<"?">>, <<"raw", 0>> }

\* signData(data, privateKeyBase64): base64ToBuffer, then importKey is
\* awaited; no try/catch, a throw rejects the promise
signDataStart(c, data, privateKey) ==
  /\ Free(c)
  /\ LET args == [data |-> data, privateKey |-> privateKey] IN
     IF ~ validBase64(privateKey)
       THEN Finish(c, "signData", args, rejectedWith(<<"InvalidCharacterError">>))
       ELSE Goto(c, "sign_import", [op |-> "signData", args |-> args])
  /\ UNCHANGED <<modvars, lsvars, sbvars, now, uivars>>

\* importKey settles; crypto.subtle.sign is awaited and its bytes returned
signDataImported(c) ==
  /\ pc[c] = "sign_import"
  /\ IF ~ validPrivateKey(loc[c].args.privateKey)
       THEN Return(c, rejectedWith(<<"DataError">>))
       ELSE Return(c, resolved(signData(loc[c].args.data, loc[c].args.privateKey)))
  /\ UNCHANGED <<modvars, lsvars, sbvars, now, uivars>>

\* verifySignature(data, signatureBase64, publicKeyBase64): inside the try,
\* base64ToBuffer of the key, then importKey is awaited
verifySignatureStart(c, data, signature, publicKey) ==
  /\ Free(c)
  /\ LET args == [data |-> data, signature |-> signature, publicKey |-> publicKey] IN
     IF ~ validBase64(publicKey)
       THEN Finish(c, "verifySignature", args,
                   caught(rejectedWith(FALSE)))
       ELSE Goto(c, "verify_import", [op |-> "verifySignature", args |-> args])
  /\ UNCHANGED <<modvars, lsvars, sbvars, now, uivars>>

\* importKey settles; still inside the try, base64ToBuffer of the signature,
\* and the promise of crypto.subtle.verify is returned
verifySignatureImported(c) ==
  /\ pc[c] = "verify_import"
  /\ IF ~ validPublicKey(loc[c].args.publicKey) \/ ~ validBase64(loc[c].args.signature)
       THEN Return(c, caught(rejectedWith(FALSE)))
       ELSE Goto(c, "verify_verify", loc[c])
  /\ UNCHANGED <<modvars, lsvars, sbvars, now, uivars>>

\* the returned promise of crypto.subtle.verify settles the call
verifySignatureVerified(c) ==
  /\ pc[c] = "verify_verify"
  /\ Return(c, subtleVerify(loc[c].args.publicKey, loc[c].args.signature,
                            loc[c].args.data))
  /\ UNCHANGED <<modvars, lsvars, sbvars, now, uivars>>

signDataCall(c) ==
  \/ \E data \in Messages, privateKey \in PrivateKeyInputs :
       signDataStart(c, data, privateKey)
  \/ signDataImported(c)

verifySignature(c) ==
  \/ \E data \in Messages, signature \in SignatureInputs,
        publicKey \in PublicKeyInputs :
       verifySignatureStart(c, data, signature, publicKey)
  \/ verifySignatureImported(c)
  \/ verifySignatureVerified(c)

\* a visitor on the Verify page; before the page is used, slot 2 may have
\* registered a user and the file f
NextPage ==
  \/ Verify(1)
  \/ /\ verifyPage = verifyPageInit /\ pc[1] = "idle"
     /\ \/ registerStart(2, [email |-> <<"a">>, username |-> <<"u">>, password |-> "p"],
                         MaxRecords - 1)
        \/ registerEnsured(2) \/ registerKeys(2) \/ registerSignUp(2)
        \/ registerSbHash(2) \/ registerUpsert(2) \/ registerLocal(2)
        \/ \E userId \in userIds :
             uploadStart(2, userId, uploadData(FileF, Null), MaxRecords - 1)
        \/ uploadEnsured(2) \/ uploadHashed(2) \/ uploadChecked(2)
        \/ uploadSigned(2) \/ uploadInserted(2)
        \/ pc[2] \notin {"idle", "done"} /\ getCurrentUser(2)

SpecPage == Init /\ [][NextPage]_vars

\* slot 1 signs and verifies, slot 2 verifies
NextCrypto ==
  \/ signDataCall(1)
  \/ verifySignature(1)
  \/ verifySignature(2)

SpecCrypto == Init /\ [][NextCrypto]_vars

\* An account that the stores already hold when the page is loaded: its
\* private key, read back by getCurrentUser as privateKey (a missing one as
\* ''), is an exported key, absent, or a string that is no PKCS#8 key.
StoredKeys == { <<"priv", 1>>, <<>>, <<"bad", 1>> }

storedUser(key) ==
  [id |-> 1, email |-> <<"a">>, username |-> <<"u">>,
   password_hash |-> hashString("q"),
   public_key |-> <<"pub", 1>>, private_key_encrypted |-> key]

storedAuthUser(key) ==
  [id |-> 1, email |-> <<"a">>, password |-> "q",
   user_metadata |-> [username |-> <<"u">>, public_key |-> <<"pub", 1>>,
                      private_key_encrypted |-> key]]

\* the account is in localStorage, or in Supabase Auth with or without its
\* row of the users table
InitKeys ==
  /\ useSupabase = TRUE
  /\ connectionTested = FALSE
  /\ inventa_documents = <<>>
  /\ inventa_login_history = <<>>
  /\ inventa_session = Null
  /\ authSession = NullId
  /\ tblDocuments = <<>>
  /\ tblLoginHistory = <<>>
  /\ \E key \in StoredKeys :
       \/ /\ inventa_users = <<storedUser(key)>>
          /\ authUsers = <<>> /\ tblUsers = <<>>
       \/ /\ inventa_users = <<>>
          /\ authUsers = <<storedAuthUser(key)>>
          /\ tblUsers \in { <<>>, <<storedUser(key)>> }
  /\ now = 0
  /\ verifyPage = verifyPageInit
  /\ authContext = authContextInit
  /\ pc = [c \in Calls |-> "idle"]
  /\ loc = [c \in Calls |-> Null]
  /\ ret = [c \in Calls |-> Null]

\* the account signs in and registers documents
NextKeys ==
  \/ login(1, MaxRecords)
  \/ uploadDocument(1, MaxRecords)
  \/ pc[1] \notin {"idle", "done"} /\ getCurrentUser(1)

SpecKeys == InitKeys /\ [][NextKeys]_vars

\* ----------------------------------------------------------- properties
Registry == inventa_documents \o tblDocuments

History == inventa_login_history \o tblLoginHistory

InFlight(c) == pc[c] \notin {"idle", "done"}

\* the step is a step of call c
CallStep(c) == <<pc[c], loc[c], ret[c]>>' # <<pc[c], loc[c], ret[c]>>

\* call c, an `op`, returns in this step
Returns(c, op) == CallStep(c) /\ pc'[c] = "done" /\ opOf(loc'[c]) = op

UniqueHash(table) ==
  \A i, j \in 1 .. Len(table) : i # j => table[i].hash # table[j].hash

holdsHash(table, hash) == \E i \in 1 .. Len(table) : table[i].hash = hash

\* the record of the registry with the given hash
recordOf(hash) ==
  Registry[CHOOSE i \in 1 .. Len(Registry) : Registry[i].hash = hash]

fileHashOf(args) == generateSHA256Hash(args.data.file)

duplicateMessages ==
  { "You have already registered this document",
    "This document has already been registered by another user" }

\* C1: with the calls made one after the other, no two records of the
\* document registry have the same hash, and an uploadDocument call that
\* returns while the registry holds a record with the hash of its file is
\* rejected and leaves the registry as it was, whoever the caller is.
C1_UniqueFingerprints ==
  [][/\ UniqueHash(inventa_documents') /\ UniqueHash(tblDocuments')
     /\ \A c \in Calls :
          ( /\ Returns(c, "uploadDocument")
            /\ holdsHash(Registry, fileHashOf(loc'[c].args)) )
          => /\ ret'[c].success = FALSE
             /\ Registry' = Registry]_vars

\* a file with the bytes of a registered document, under another name, has
\* been rejected as a duplicate
C1_Witness ==
  \E c \in Calls :
    /\ pc[c] = "done" /\ opOf(loc[c]) = "uploadDocument"
    /\ ret[c].message \in duplicateMessages
    /\ holdsHash(Registry, fileHashOf(loc[c].args))
    /\ recordOf(fileHashOf(loc[c].args)).filename # loc[c].args.data.file.name

\* C2: also with two uploadDocument calls for the same bytes in flight
\* together, at most one record with that hash is stored and at most one of
\* the two calls succeeds.
C2_AtomicCheckAndInsert ==
  /\ \A i, j \in 1 .. Len(Registry) : i # j => Registry[i].hash # Registry[j].hash
  /\ \A c, d \in Calls :
       ( /\ c # d
         /\ pc[c] = "done" /\ opOf(loc[c]) = "uploadDocument"
         /\ pc[d] = "done" /\ opOf(loc[d]) = "uploadDocument"
         /\ fileHashOf(loc[c].args) = fileHashOf(loc[d].args) )
       => ~ (ret[c].success /\ ret[d].success)

\* the fingerprint a verifyDocument call looks up
lookedUp(fileOrHash) ==
  IF fileOrHash.kind = "string"
    THEN trim(fileOrHash.text)
    ELSE generateSHA256Hash(fileOrHash.file)

\* C3: once a record with hash h is registered for user A it stays in the
\* registry unchanged; an authenticated uploadDocument of the same bytes for
\* another user B returns "already registered by another user", and a
\* verifyDocument that looks h up returns verified with A's record and A as
\* the owner.
C3_FirstRegistrantStaysOwner ==
  [][/\ \A i \in 1 .. Len(inventa_documents) :
          i <= Len(inventa_documents') /\ inventa_documents'[i] = inventa_documents[i]
     /\ \A i \in 1 .. Len(tblDocuments) :
          i <= Len(tblDocuments') /\ tblDocuments'[i] = tblDocuments[i]
     /\ \A c \in Calls :
          ( /\ Returns(c, "uploadDocument")
            /\ "user" \in DOMAIN loc[c]
            /\ holdsHash(Registry, fileHashOf(loc[c].args))
            /\ recordOf(fileHashOf(loc[c].args)).user_id # loc[c].args.userId )
          => ret'[c].message = "This document has already been registered by another user"
     /\ \A c \in Calls :
          ( /\ Returns(c, "verifyDocument")
            /\ holdsHash(Registry, lookedUp(loc'[c].args)) )
          => /\ ret'[c].verified
             /\ ret'[c].document.id = recordOf(lookedUp(loc'[c].args)).id
             /\ ret'[c].document.userId = recordOf(lookedUp(loc'[c].args)).user_id
             /\ ret'[c].owner # Null
             /\ ret'[c].owner.id = recordOf(lookedUp(loc'[c].args)).user_id]_vars

\* user B's upload of bytes that user A registered has been rejected
C3_Witness ==
  \E c \in Calls :
    /\ pc[c] = "done" /\ opOf(loc[c]) = "uploadDocument"
    /\ ret[c].message = "This document has already been registered by another user"
    /\ holdsHash(Registry, fileHashOf(loc[c].args))
    /\ recordOf(fileHashOf(loc[c].args)).user_id # loc[c].args.userId
    /\ Len(Registry) = 1

\* C4: an uploadDocument that was rejected as a duplicate says "You have
\* already registered this document" when the existing record belongs to the
\* caller and "This document has already been registered by another user"
\* when it belongs to someone else.
C4_DuplicateMessage ==
  \A c \in Calls :
    ( /\ pc[c] = "done" /\ opOf(loc[c]) = "uploadDocument"
      /\ ~ ret[c].success
      /\ ret[c].message # "User not authenticated"
      /\ holdsHash(Registry, fileHashOf(loc[c].args)) )
    => ret[c].message =
         IF recordOf(fileHashOf(loc[c].args)).user_id = loc[c].args.userId
           THEN "You have already registered this document"
           ELSE "This document has already been registered by another user"

\* the caller's own document has been rejected as a duplicate
C4_Witness ==
  \E c \in Calls :
    /\ pc[c] = "done" /\ opOf(loc[c]) = "uploadDocument"
    /\ ret[c].message = "You have already registered this document"
    /\ recordOf(fileHashOf(loc[c].args)).user_id = loc[c].args.userId

\* C5: no two stored users have the same email and no two have the same
\* user name, in inventa_users, in the users table and in Supabase Auth.
C5_UniqueEmailAndUsername ==
  /\ \A table \in {inventa_users, tblUsers} :
       \A i, j \in 1 .. Len(table) :
         i # j => /\ table[i].email # table[j].email
                  /\ table[i].username # table[j].username
  /\ \A i, j \in 1 .. Len(authUsers) :
       i # j => /\ authUsers[i].email # authUsers[j].email
                /\ authUsers[i].user_metadata.username
                     # authUsers[j].user_metadata.username

emailInUse(email) ==
  \/ \E i \in 1 .. Len(inventa_users) : inventa_users[i].email = email
  \/ \E i \in 1 .. Len(tblUsers) : tblUsers[i].email = email
  \/ \E i \in 1 .. Len(authUsers) : authUsers[i].email = email

usernameInUse(username) ==
  \/ \E i \in 1 .. Len(inventa_users) : inventa_users[i].username = username
  \/ \E i \in 1 .. Len(tblUsers) : tblUsers[i].username = username
  \/ \E i \in 1 .. Len(authUsers) : authUsers[i].user_metadata.username = username

\* C6: a register call that reaches the stores (the scan of inventa_users,
\* the signUp request) with an email or a user name that is in use returns a
\* conflict message in that step and leaves users and session unchanged.
C6_RegisterConflictChangesNothing ==
  [][\A c \in Calls :
       ( /\ CallStep(c)
         /\ pc[c] \in {"register_hash", "register_signUp"}
         /\ emailInUse(loc[c].email) \/ usernameInUse(loc[c].username) )
       => /\ pc'[c] = "done"
          /\ ret'[c].success = FALSE
          /\ ret'[c].message \in {"Email already registered", "Username already taken"}
          /\ UNCHANGED <<inventa_users, tblUsers, authUsers, inventa_session>>]_vars

\* C7: a read of the session by getCurrentUser or SessionStorage.get that
\* finds a stored session whose expiry is in the past returns null at once,
\* whichever user the session names.
C7_ExpiredSessionIsAbsent ==
  [][\A c \in Calls :
       ( /\ Free(c)
         /\ CallStep(c) \/ inventa_session' # inventa_session
         /\ opOf(loc'[c]) \in {"getCurrentUser", "SessionStorage.get"}
         /\ inventa_session # Null
         /\ inventa_session.expiresAt < now )
       => /\ pc'[c] = "done"
          /\ ret'[c] = Null]_vars

\* getCurrentUser has returned null for a user who never logged out: the
\* session is gone while Supabase Auth still holds the sign-in
C7_Witness ==
  \E c \in Calls :
    /\ pc[c] = "done" /\ opOf(loc[c]) = "getCurrentUser"
    /\ ret[c] = Null
    /\ inventa_session = Null
    /\ authSession # NullId
    /\ now >= SessionTTL + 1

\* the stored credentials that a login's arguments match
credentialsMatch(args) ==
  \/ \E i \in 1 .. Len(inventa_users) :
       /\ inventa_users[i].email = trim(toLowerCase(args.email))
       /\ inventa_users[i].password_hash = <<"sha256", args.password>>
  \/ \E i \in 1 .. Len(authUsers) :
       /\ authUsers[i].email = trim(toLowerCase(args.email))
       /\ authUsers[i].password = args.password

\* C8: a login returns success exactly when a stored user has the trimmed,
\* lower-cased email and the password; it then leaves a session naming the
\* returned user.  The session changes only by logout, by a read after its
\* expiry and by a successful login or register, and a getCurrentUser that
\* finds a current session returns the user that the session names.
C8_LoginAndCurrentUser ==
  [][/\ \A c \in Calls :
          Returns(c, "login")
          => /\ ret'[c].success <=> credentialsMatch(loc'[c].args)
             /\ ret'[c].success
                => /\ ret'[c].user.email = trim(toLowerCase(loc'[c].args.email))
                   /\ inventa_session' # Null
                   /\ inventa_session'.userId = ret'[c].user.id
     /\ inventa_session' # inventa_session
          => \E c \in Calls :
               \/ opOf(loc'[c]) = "logout" /\ inventa_session' = Null
               \/ /\ opOf(loc'[c]) \in {"getCurrentUser", "SessionStorage.get", "uploadDocument"}
                  /\ inventa_session.expiresAt < now
                  /\ inventa_session' = Null
               \/ /\ opOf(loc'[c]) \in {"login", "register"}
                  /\ inventa_session' # Null
                  /\ inventa_session'.expiresAt = now + SessionTTL
                  /\ pc'[c] = "done" => ret'[c].success
     /\ \A c \in Calls :
          ( /\ Free(c) /\ CallStep(c)
            /\ opOf(loc'[c]) = "getCurrentUser"
            /\ inventa_session # Null
            /\ inventa_session.expiresAt >= now )
          => pc'[c] # "done"
     /\ \A c \in Calls :
          ( /\ InFlight(c) /\ opOf(loc[c]) = "getCurrentUser"
            /\ Returns(c, "getCurrentUser") )
          => /\ ret'[c] # Null
             /\ ret'[c].id = inventa_session.userId]_vars

\* getCurrentUser has returned the user of a recorded successful login
C8_Witness ==
  \E c \in Calls :
    /\ pc[c] = "done" /\ opOf(loc[c]) = "getCurrentUser"
    /\ ret[c] # Null
    /\ History # <<>>
    /\ History[Len(History)].status = "success"
    /\ History[Len(History)].user_id = ret[c].id

\* the login event that the step has added
newEvent ==
  IF inventa_login_history' # inventa_login_history
    THEN inventa_login_history'[Len(inventa_login_history')]
    ELSE tblLoginHistory'[Len(tblLoginHistory')]

C10_GenericLoginFailure ==
  \A c \in Calls :
    ( pc[c] = "done" /\ opOf(loc[c]) = "login" /\ ~ ret[c].success )
    => /\ ret[c] = [success |-> FALSE, user |-> Null,
                    message |-> "Invalid email or password"]
       /\ History # <<>>
       /\ History[Len(History)].status = "failed"
       /\ History[Len(History)].fail_reason
            \in {"User not found", "Invalid password", "Invalid login credentials"}

\* a login with a wrong password for a known email has failed
C10_Witness ==
  \E c \in Calls :
    /\ pc[c] = "done" /\ opOf(loc[c]) = "login"
    /\ ~ ret[c].success
    /\ emailInUse(trim(toLowerCase(loc[c].args.email)))
    /\ History[Len(History)].fail_reason = "Invalid password"

\* C11: every step of a logout call leaves the session absent, whichever user
\* it named; a getCurrentUser that finds no session returns null at once; and
\* an absent session stays absent until a login or a register stores one,
\* which that call then reports as a success.
C11_LogoutClearsSession ==
  [][/\ \A c \in Calls :
          ( CallStep(c) /\ opOf(loc'[c]) = "logout" ) => inventa_session' = Null
     /\ \A c \in Calls :
          ( /\ Free(c) /\ CallStep(c)
            /\ opOf(loc'[c]) = "getCurrentUser"
            /\ inventa_session = Null )
          => /\ pc'[c] = "done"
             /\ ret'[c] = Null
     /\ ( inventa_session = Null /\ inventa_session' # Null )
          => \E c \in Calls :
               /\ CallStep(c)
               /\ opOf(loc'[c]) \in {"login", "register"}
               /\ pc'[c] = "done" => ret'[c].success]_vars

\* getCurrentUser has returned null for a registered user whose session no
\* expiry can have removed: it was removed by logout
C11_Witness ==
  \E c \in Calls :
    /\ pc[c] = "done" /\ opOf(loc[c]) = "getCurrentUser"
    /\ ret[c] = Null
    /\ inventa_session = Null
    /\ userIds # {}
    /\ now = 0

\* the characters a caller typed, blanks left out
noBlanks(text) == SelectSeq(text, LAMBDA ch : ch # " ")

\* a call by typed string and a call by file for the same fingerprint
sameFingerprint(c, d) ==
  /\ pc[c] = "done" /\ opOf(loc[c]) = "verifyDocument"
  /\ pc[d] = "done" /\ opOf(loc[d]) = "verifyDocument"
  /\ loc[c].args.kind = "string" /\ loc[d].args.kind = "file"
  /\ noBlanks(loc[c].args.text) = generateSHA256Hash(loc[d].args.file)

\* C12: for a registered document, verifyDocument called with the typed
\* fingerprint and verifyDocument called with the file return the same result:
\* verified, with the stored record, its signature and its owner.
C12_StringAndFileAgree ==
  \A c, d \in Calls :
    ( /\ sameFingerprint(c, d)
      /\ holdsHash(Registry, generateSHA256Hash(loc[d].args.file)) )
    => LET record == recordOf(generateSHA256Hash(loc[d].args.file)) IN
       /\ ret[c] = ret[d]
       /\ ret[c].verified
       /\ ret[c].document = documentOf(record)
       /\ ret[c].document.signature = record.signature
       /\ ret[c].owner # Null
       /\ ret[c].owner.id = record.user_id

\* a registered document has been verified by typed fingerprint, padded with
\* a blank, and by file
C12_Witness ==
  \E c, d \in Calls :
    /\ sameFingerprint(c, d)
    /\ loc[c].args.text # generateSHA256Hash(loc[d].args.file)
    /\ holdsHash(Registry, generateSHA256Hash(loc[d].args.file))
    /\ ret[d].verified

\* the fingerprint that the caller of verifyDocument asks about
askedFor(fileOrHash) ==
  IF fileOrHash.kind = "string"
    THEN noBlanks(fileOrHash.text)
    ELSE generateSHA256Hash(fileOrHash.file)

\* C13: a verifyDocument call that has returned reports the fingerprint it
\* was asked about; it is verified exactly when the registry holds a record
\* with that very hash, and then returns that record; otherwise it returns
\* verified = FALSE with the not-found message and neither document nor owner.
C13_ExactMatchOrNotFound ==
  \A c \in Calls :
    ( pc[c] = "done" /\ opOf(loc[c]) = "verifyDocument" )
    => /\ ret[c].hash = askedFor(loc[c].args)
       /\ ret[c].verified <=> holdsHash(Registry, askedFor(loc[c].args))
       /\ ret[c].verified
            => /\ ret[c].document = documentOf(recordOf(askedFor(loc[c].args)))
               /\ ret[c].document.hash = askedFor(loc[c].args)
       /\ ~ ret[c].verified
            => ret[c] =
                 [verified |-> FALSE, document |-> Null, owner |-> Null,
                  message |-> "Document not found. This document has not been registered yet.",
                  hash |-> askedFor(loc[c].args)]

\* the typed beginning of a registered fingerprint has not been found
C13_Witness ==
  \E c \in Calls :
    /\ pc[c] = "done" /\ opOf(loc[c]) = "verifyDocument"
    /\ loc[c].args.kind = "string"
    /\ ~ ret[c].verified
    /\ \E i \in 1 .. Len(Registry) :
         /\ Len(ret[c].hash) < Len(Registry[i].hash)
         /\ SubSeq(Registry[i].hash, 1, Len(ret[c].hash)) = ret[c].hash

\* C14: a getUserDocuments(userId) call that has returned lists every record
\* of the registry whose owner is userId, once each, and nothing else, and no
\* document of the list is newer than one listed before it.
C14_OwnedNewestFirst ==
  \A c \in Calls :
    ( pc[c] = "done" /\ opOf(loc[c]) = "getUserDocuments" )
    => LET owned == { i \in 1 .. Len(Registry) : Registry[i].user_id = loc[c].args }
           listed == ret[c]
       IN  /\ Len(listed) = Cardinality(owned)
           /\ \A i \in owned : \E k \in 1 .. Len(listed) : listed[k] = documentOf(Registry[i])
           /\ \A k \in 1 .. Len(listed) :
                /\ listed[k].userId = loc[c].args
                /\ \E i \in owned : listed[k] = documentOf(Registry[i])
           /\ \A k, l \in 1 .. Len(listed) :
                k < l => listed[k].timestamp >= listed[l].timestamp

\* a user's two documents, uploaded in different weeks, have been listed
C14_Witness ==
  \E c \in Calls :
    /\ pc[c] = "done" /\ opOf(loc[c]) = "getUserDocuments"
    /\ Len(ret[c]) = 2
    /\ ret[c][1].timestamp > ret[c][2].timestamp

\* C15: a document record is never changed after its upload: in every step
\* of every operation, each record that is still in the registry afterwards
\* is exactly the record that was stored, with its hash, signature, owner
\* and timestamp (and every other field) as they were.
C15_RecordImmutable ==
  [][\A i \in 1 .. Len(Registry) : \A j \in 1 .. Len(Registry') :
       Registry'[j].id = Registry[i].id => Registry'[j] = Registry[i]]_vars

\* a second document has been registered while the first was in the registry
C15_Witness ==
  /\ Len(Registry) >= 2
  /\ pc[1] = "done" /\ opOf(loc[1]) = "uploadDocument"
  /\ ret[1].success = TRUE

\* the registry without the record with the given id
without(docs, id) == SelectSeq(docs, LAMBDA d : d.id # id)

\* the ids of the records of the registry
registered(docs) == { docs[i].id : i \in 1 .. Len(docs) }

isPrefix(before, after) ==
  /\ Len(before) <= Len(after)
  /\ \A i \in 1 .. Len(before) : after[i] = before[i]

\* C17: the login history is append-only: in every step of every operation
\* of the API (the reads and the export included), each store of login
\* events keeps the events it had, unchanged and in place, as a prefix of
\* the events it has afterwards.
C17_HistoryAppendOnly ==
  [][/\ isPrefix(inventa_login_history, inventa_login_history')
     /\ isPrefix(tblLoginHistory, tblLoginHistory')
     /\ isPrefix(History, History')]_vars

\* the history holds two events and has been read afterwards
C17_Witness ==
  /\ Len(History) >= 2
  /\ pc[1] = "done" /\ opOf(loc[1]) \in {"getLoginHistory", "exportAllData", "getStats"}
  /\ ret[1] # Null

\* the step is a step of a call c of one of `ops` that reports, or is bound
\* to report once its login event is recorded, a success
succeeds(c, ops) ==
  /\ CallStep(c)
  /\ opOf(loc'[c]) \in ops
  /\ IF pc'[c] = "done"
       THEN ret'[c].success
       ELSE pc'[c] = "login_history" /\ loc'[c].result.success

\* the stored session ceases to exist in this step only through logout or
\* through a read of it after its expiry instant
endsByLogoutOrExpiry ==
  ( inventa_session # Null /\ inventa_session' = Null )
    => \E c \in Calls :
         /\ CallStep(c)
         /\ \/ opOf(loc'[c]) = "logout"
            \/ /\ opOf(loc'[c]) \in {"getCurrentUser", "SessionStorage.get", "uploadDocument"}
               /\ inventa_session.expiresAt < now

\* C18 as stated: a session record comes into existence only through a
\* successful login, and ceases to exist only through logout or through
\* being read after its expiry instant.
C18_SessionOnlyByLogin ==
  [][/\ ( inventa_session' # Null /\ inventa_session' # inventa_session )
          => \E c \in Calls : succeeds(c, {"login"})
     /\ endsByLogoutOrExpiry]_vars

\* C18, amended: a session record comes into existence only through a
\* successful login or a successful register, naming the user that the call
\* returns and expiring one session lifetime later; it ceases to exist only
\* through logout or through being read after its expiry instant.
C18_SessionLifecycle ==
  [][/\ ( inventa_session' # Null /\ inventa_session' # inventa_session )
          => /\ \E c \in Calls :
                  /\ succeeds(c, {"login", "register"})
                  /\ inventa_session'.userId =
                       IF pc'[c] = "done" THEN ret'[c].user.id
                                          ELSE loc'[c].result.user.id
             /\ inventa_session'.expiresAt = now + SessionTTL
     /\ endsByLogoutOrExpiry]_vars

\* a session exists that no login created: a register stored it
C18_Witness ==
  \E c \in Calls :
    /\ pc[c] = "done" /\ opOf(loc[c]) = "register" /\ ret[c].success
    /\ inventa_session # Null
    /\ inventa_session.userId = ret[c].user.id
    /\ History = <<>>

\* the string that the signature of a stored record was made over
signedString(record) == record.signature[3]

\* C19 as stated: the string signed at registration is the fingerprint, the
\* upload timestamp and the owner identifier, in that order.
C19_FingerprintTimestampOwner ==
  \A i \in 1 .. Len(Registry) :
    signedString(Registry[i]) =
      <<Registry[i].hash, Registry[i].timestamp, Registry[i].user_id>>

\* C19, amended: the string signed at registration is the fingerprint, the
\* owner identifier and the upload timestamp, in that order; the timestamp
\* in it is the one stored with the record.
C19_FingerprintOwnerTimestamp ==
  /\ \A i \in 1 .. Len(Registry) :
       /\ signedString(Registry[i]) =
            <<Registry[i].hash, Registry[i].user_id, Registry[i].timestamp>>
       /\ Registry[i].created_at = Registry[i].timestamp
  /\ \A c \in Calls :
       ( InFlight(c) /\ "dataToSign" \in DOMAIN loc[c] )
       => loc[c].dataToSign = <<loc[c].hash, loc[c].args.userId, loc[c].timestamp>>

\* a document has been registered whose upload time and owner identifier
\* differ, so that the two orders give different strings
C19_Witness ==
  \E c \in Calls :
    /\ pc[c] = "done" /\ opOf(loc[c]) = "uploadDocument" /\ ret[c].success
    /\ \E i \in 1 .. Len(Registry) :
         /\ Registry[i].id = ret[c].document.id
         /\ Registry[i].timestamp # Registry[i].user_id

\* the private key is one that generateECCKeyPair exported
exportedKey(key) == Len(key) = 2 /\ key[1] = "priv"

\* the signature was made by signData with an exported key over the string
\* of the record
properSignature(record) ==
  /\ Len(record.signature) = 3
  /\ record.signature[1] = "sig"
  /\ record.signature[3] = <<record.hash, record.user_id, record.timestamp>>

\* C20: when signData is awaited with an absent or malformed private key of
\* the current user, the uploadDocument call returns a failure in that very
\* step and the registry stays as it was; and every stored record carries a
\* signature made with an exported key, never an empty or degenerate one.
C20_NoSignatureNoRecord ==
  [][/\ \A c \in Calls :
          ( /\ pc[c] = "upload_sign"
            /\ ~ exportedKey(loc[c].user.privateKey)
            /\ CallStep(c) )
          => /\ pc'[c] = "done"
             /\ ret'[c] = uploadResult(FALSE, Null, "Upload failed. Please try again.")
             /\ Registry' = Registry
     /\ \A i \in 1 .. Len(Registry') :
          /\ properSignature(Registry'[i])
          /\ \E key \in StoredKeys :
               exportedKey(key) /\ Registry'[i].signature[2] = key[2]]_vars

\* an upload by a signed-in user whose private key is absent or malformed
\* has been refused, and nothing is registered
C20_Witness ==
  \E c \in Calls :
    /\ pc[c] = "done" /\ opOf(loc[c]) = "uploadDocument"
    /\ ret[c] = uploadResult(FALSE, Null, "Upload failed. Please try again.")
    /\ inventa_session # Null
    /\ \E i \in 1 .. Len(inventa_users \o tblUsers \o authUsers) :
         LET row == (inventa_users \o tblUsers \o authUsers)[i] IN
         /\ row.id = inventa_session.userId
         /\ "private_key_encrypted" \in DOMAIN row
         /\ ~ exportedKey(row.private_key_encrypted)
    /\ Registry = <<>>

\* C21: the promise of verifySignature is never rejected and carries a
\* boolean; for a key that is no exported public key and for a signature
\* that is no base64 text it resolves to false.
C21_VerifyNeverThrows ==
  \A c \in Calls :
    ( pc[c] = "done" /\ opOf(loc[c]) = "verifySignature" )
    => /\ ~ ret[c].rejected
       /\ ret[c].value \in BOOLEAN
       /\ ( \/ ~ validPublicKey(loc[c].args.publicKey)
            \/ ~ validBase64(loc[c].args.signature) )
          => ret[c].value = FALSE

\* verifySignature has answered false for a public key that atob rejects and
\* for a signature that atob rejects under a good key
C21_Witness ==
  /\ pc[1] = "done" /\ opOf(loc[1]) = "verifySignature"
  /\ loc[1].args.publicKey = <<"?">>
  /\ ret[1] = resolved(FALSE)
  /\ pc[2] = "done" /\ opOf(loc[2]) = "verifySignature"
  /\ validPublicKey(loc[2].args.publicKey)
  /\ loc[2].args.signature = <<"?">>
  /\ ret[2] = resolved(FALSE)

C23_InsertIsLastChange ==
  [][/\ Registry' # Registry
          => \E c \in Calls :
               /\ CallStep(c)
               /\ pc[c] \in {"upload_sign", "upload_proof", "upload_insert"}
               /\ Returns(c, "uploadDocument")
               /\ ret'[c].success
               /\ Len(Registry') = Len(Registry) + 1
               /\ \E i \in 1 .. Len(Registry') :
                    /\ Registry'[i].id = ret'[c].document.id
                    /\ Registry'[i].hash = loc[c].hash
                    /\ Registry'[i].signature =
                         signData(loc[c].dataToSign, loc[c].user.privateKey)
                    /\ \A j \in 1 .. Len(Registry) : \E k \in 1 .. Len(Registry') :
                         k # i /\ Registry'[k] = Registry[j]
               /\ <<inventa_users, inventa_login_history, inventa_session,
                     authUsers, authSession, tblUsers, tblLoginHistory>>'
                    = <<inventa_users, inventa_login_history, inventa_session,
                        authUsers, authSession, tblUsers, tblLoginHistory>>
     /\ \A c \in Calls :
          ( Returns(c, "uploadDocument") /\ ~ ret'[c].success )
          => Registry' = Registry]_vars

\* an upload has been hashed, checked and signed and is waiting for the hash
\* of its proof of work: the registry does not hold its document
C23_Witness ==
  \E c \in Calls :
    /\ pc[c] = "upload_proof"
    /\ ~ holdsHash(Registry, loc[c].hash)

\* the states of the verification flow, read off the page
awaitingInput == verifyPage.result = Null /\ ~ verifyPage.isVerifying

computingFingerprint == verifyPage.isVerifying /\ pc[1] = "verify_hash"

resultShown == verifyPage.result # Null

\* C24: the verifyDocument call of the page starts only by the Verify
\* button in awaiting-input; for a file it computes the fingerprint before
\* anything is looked up, for a typed fingerprint it never does; looked-up
\* is entered only with the answer of that call, and is left only by a
\* reset of the visitor, which empties the form, starts no call and leaves
\* the page awaiting input: no step looks a fingerprint up again on its own.
C24_VerificationFlow ==
  [][/\ ( ~ InFlight(1) /\ InFlight(1)' )
          => /\ awaitingInput
             /\ verifyPage'.isVerifying /\ verifyPage'.result = Null
             /\ pc'[1] = "verify_ensure"
     /\ ( InFlight(1)' /\ pc'[1] # pc[1] /\ loc'[1].args.kind = "file" )
          => \/ pc'[1] \in {"verify_ensure", "verify_hash"}
             \/ pc[1] \in {"verify_hash", "verify_select", "verify_owner"}
     /\ ( Returns(1, "verifyDocument") /\ loc'[1].args.kind = "file" )
          => pc[1] \in {"verify_hash", "verify_select", "verify_owner"}
     /\ ( InFlight(1)' /\ loc'[1].args.kind = "string" ) => pc'[1] # "verify_hash"
     /\ ( ~ resultShown /\ resultShown' )
          => /\ verifyPage.isVerifying /\ ~ verifyPage'.isVerifying
             /\ pc[1] = "done" /\ verifyPage'.result = ret[1]
             /\ <<pc, loc, ret>>' = <<pc, loc, ret>>
     /\ ( resultShown /\ verifyPage'.result # verifyPage.result )
          => /\ awaitingInput'
             /\ verifyPage'.file = Null /\ verifyPage'.hash = <<>>
             /\ <<pc, loc, ret>>' = <<pc, loc, ret>>]_vars

\* the lookup of a selected file has found its document, after the page
\* was computing the fingerprint
C24_Witness ==
  /\ resultShown
  /\ verifyPage.method = "file"
  /\ verifyPage.result.verified
  /\ verifyPage.result.hash = generateSHA256Hash(loc[1].args.file)

\* C25: the record that an uploadDocument call stores is owned by the user
\* that getCurrentUser gave the call, the user of the current session, whose
\* private key signed it.
C25_OwnerIsAuthenticatedUser ==
  [][\A c \in Calls :
       ( Returns(c, "uploadDocument") /\ ret'[c].success )
       => \E i \in 1 .. Len(Registry') :
            /\ Registry'[i].id = ret'[c].document.id
            /\ Registry'[i].user_id = loc[c].user.id
            /\ Registry'[i].signature =
                 signData(loc[c].dataToSign, loc[c].user.privateKey)]_vars

\* C26: once a connection test has set connectionTested, useSupabase keeps
\* its value in every later step, also with several calls of ensureConnection
\* made before the first test has answered.
C26_BackendChosenOnce ==
  [][connectionTested => useSupabase' = useSupabase]_vars

\* C27: a login call changes the stored session only in the step in which it
\* succeeds, and the Supabase session only when signInWithPassword accepted
\* the credentials, after which the call succeeds; a login that fails for
\* an unknown email or a wrong password leaves both as they were.
C27_FailedLoginKeepsSession ==
  [][\A c \in Calls :
       ( CallStep(c) /\ opOf(loc'[c]) = "login" )
       => /\ inventa_session' # inventa_session => succeeds(c, {"login"})
          /\ authSession' # authSession => pc'[c] = "login_select"
          /\ pc[c] = "login_select" => succeeds(c, {"login"})
          /\ pc[c] = "login_history" => ret'[c] = loc[c].result]_vars

\* a login has failed while a user was logged in, and that user still is
C27_Witness ==
  \E c \in Calls :
    /\ pc[c] = "done"
    /\ opOf(loc[c]) = "login"
    /\ ~ ret[c].success
    /\ inventa_session # Null
    /\ ~ expired(inventa_session)

\* C28: after logout has removed the stored session and set the context's
\* user to null, and as long as no login or register has stored a new
\* session, the context's user becomes non-null only by the result of a
\* login or register.
C28_LoggedOutStaysLoggedOut ==
  [][( inventa_session' = Null /\ authContext.user = Null /\ authContext'.user # Null )
     => \E c \in Calls :
          pc[c] = "done" /\ opOf(loc[c]) \in {"login", "register"} /\ pc'[c] = "idle"]_vars

\* C29: whenever the Verify page shows a computed hash beside the name of
\* the selected file, it is the SHA-256 hash of that file.
C29_HashOfSelectedFile ==
  ( verifyPage.result = Null /\ verifyPage.file # Null /\ verifyPage.computedHash # <<>> )
  => verifyPage.computedHash = generateSHA256Hash(verifyPage.file)

ReadOps ==
  { "verifyDocument", "getUserDocuments", "getStats", "getAllUsers",
    "getAllDocuments", "getLoginHistory", "exportAllData" }

\* what verifyDocument answers for an input, by the stored documents and
\* users alone
verdict(fileOrHash) ==
  LET hash == lookedUp(fileOrHash)
      users == inventa_users \o tblUsers
  IN  IF holdsHash(Registry, hash)
        THEN found(recordOf(hash),
                   IF hasId(users, recordOf(hash).user_id)
                     THEN ownerOf(byId(users, recordOf(hash).user_id))
                     ELSE Null,
                   hash)
        ELSE notFound(hash)

\* C30: no step of verifyDocument, getUserDocuments, getStats, getAllUsers,
\* getAllDocuments, getLoginHistory or exportAllData changes the stored
\* users, documents, login history or session, and what verifyDocument
\* returns is decided by its input and the stored documents and users, with
\* or without a session.
C30_ReadsAreReadOnly ==
  [][\A c \in Calls :
       ( CallStep(c) /\ opOf(loc'[c]) \in ReadOps )
       => /\ UNCHANGED <<lsvars, sbvars>>
          /\ Returns(c, "verifyDocument") => ret'[c] = verdict(loc'[c].args)]_vars

\* a visitor who is not logged in has verified a registered document
C30_Witness ==
  \E c \in Calls :
    /\ pc[c] = "done"
    /\ opOf(loc[c]) = "verifyDocument"
    /\ ret[c].verified
    /\ inventa_session = Null
    /\ authSession = NullId

====
